---- MODULE Spec2Model ----
(***************************************************************************)
(* Model of the GAA aggregate generator, data/gaa/create_aggregates.py,    *)
(* of the converter that writes its parquet input,                         *)
(* data/gaa/gaa_csv_to_parquet.py, and of the SQL generator,               *)
(* data/gaa/create_aggregates_sql.py; further of split-csv.py, of the       *)
(* search-index imports data/gaa/import_gaa.py and                         *)
(* data/dpwh/import_dpwh.py, and of create_sitemap of                      *)
(* data/gaa/generate_sitemap.py, each with a specification of its own.     *)
(*                                                                         *)
(* A Python string is a sequence of one-character strings, so that         *)
(* prefix/substring tests, lower(), strip(), str() and the f-string        *)
(* composite keys are computed, not assumed.  A null cell (None) is the    *)
(* value NULL, which is no string.  Amounts are integers.                  *)
(***************************************************************************)
EXTENDS Integers, Sequences, FiniteSets, TLC

VARIABLES input, parquet, columns, amt_dtype, unwritable, csv,
          df, pc, output_dir, aggregates, files, failed, sql,
          split, search, sitemap

vars == <<input, parquet, columns, amt_dtype, unwritable, csv,
          df, pc, output_dir, aggregates, files, failed, sql,
          split, search, sitemap>>

\* The runs of the other scripts: split-csv, the search-index import and the
\* sitemap generator
others == <<split, search, sitemap>>

-----------------------------------------------------------------------------
(* Strings *)

NULL == <<"NULL">>

UpperCs == <<"A","B","C","D","E","F","G","H","I","J","K","L","M",
             "N","O","P","Q","R","S","T","U","V","W","X","Y","Z">>

LowerCs == <<"a","b","c","d","e","f","g","h","i","j","k","l","m",
             "n","o","p","q","r","s","t","u","v","w","x","y","z">>

DigitCs == <<"0","1","2","3","4","5","6","7","8","9">>

\* The characters of the model in code-point order: Python compares strings
\* by code point.
Alphabet ==
  <<" ", "(", ")", "-">> \o DigitCs \o <<":">> \o UpperCs \o <<"_">> \o LowerCs

Ord(c) == CHOOSE i \in 1..Len(Alphabet) : Alphabet[i] = c

RECURSIVE StrLess(_, _)
StrLess(a, b) ==
  IF b = <<>> THEN FALSE
  ELSE IF a = <<>> THEN TRUE
  ELSE IF Head(a) = Head(b) THEN StrLess(Tail(a), Tail(b))
  ELSE Ord(Head(a)) < Ord(Head(b))

\* str.lower()
LowerChar(c) ==
  IF \E i \in 1..26 : UpperCs[i] = c
  THEN LowerCs[CHOOSE i \in 1..26 : UpperCs[i] = c]
  ELSE c

Lower(s) == [i \in 1..Len(s) |-> LowerChar(s[i])]

\* str(x): a string is itself, None prints as 'None'
Str(x) == IF x = NULL THEN <<"N","o","n","e">> ELSE x

\* s.startswith(p)
StartsWith(s, p) == Len(p) <= Len(s) /\ SubSeq(s, 1, Len(p)) = p

\* p in s
Contains(s, p) ==
  \E i \in 1..(Len(s) - Len(p) + 1) : SubSeq(s, i, i + Len(p) - 1) = p

\* bool(s.strip()): some character is not whitespace
StripNonEmpty(s) == \E i \in 1..Len(s) : s[i] # " "

RECURSIVE IntToStr(_)
IntToStr(n) ==
  IF n < 10 THEN <<DigitCs[n + 1]>>
  ELSE IntToStr(n \div 10) \o <<DigitCs[(n % 10) + 1]>>

S_nan == <<"n","a","n">>
S_DepartmentOf == <<"D","e","p","a","r","t","m","e","n","t"," ","o","f">>
S_OfficeOf == <<"O","f","f","i","c","e"," ","o","f">>
S_CommissionOn == <<"C","o","m","m","i","s","s","i","o","n"," ","o","n">>
S_The == <<"T","h","e"," ">>
S_University == <<"U","n","i","v","e","r","s","i","t","y">>
S_College == <<"C","o","l","l","e","g","e">>
S_Congress == <<"C","o","n","g","r","e","s","s">>
S_Judiciary == <<"J","u","d","i","c","i","a","r","y">>
S_AutomaticAppropriations ==
  <<"A","u","t","o","m","a","t","i","c"," ",
    "A","p","p","r","o","p","r","i","a","t","i","o","n","s">>
S_BudgetarySupport ==
  <<"B","u","d","g","e","t","a","r","y"," ","S","u","p","p","o","r","t">>
S_AllocationsTo == <<"A","l","l","o","c","a","t","i","o","n","s"," ","t","o">>

is_department_name(desc) ==
  IF desc = NULL \/ desc = <<>> \/ Lower(Str(desc)) = S_nan THEN FALSE
  ELSE \/ Contains(desc, <<"(">>) /\ Contains(desc, <<")">>)
       \/ StartsWith(desc, S_DepartmentOf)
       \/ StartsWith(desc, S_OfficeOf)
       \/ StartsWith(desc, S_CommissionOn)
       \/ StartsWith(desc, S_The)
       \/ Contains(desc, S_University) \/ Contains(desc, S_College)
       \/ Contains(desc, S_Congress)
       \/ Contains(desc, S_Judiciary)
       \/ Contains(desc, S_AutomaticAppropriations)
       \/ Contains(desc, S_BudgetarySupport)
       \/ Contains(desc, S_AllocationsTo)

-----------------------------------------------------------------------------
(* pandas: groupby(keys).agg({'amt': ['count', 'sum']}).reset_index() *)

RECURSIVE SumAmt(_, _)
SumAmt(t, S) ==
  IF S = {} THEN 0
  ELSE LET i == CHOOSE j \in S : TRUE
       IN t[i].amt + SumAmt(t, S \ {i})

\* Python's comparison of two tuples of strings of one length
RECURSIVE TupleLess(_, _)
TupleLess(a, b) ==
  IF a = <<>> \/ b = <<>> THEN FALSE
  ELSE IF Head(a) = Head(b) THEN TupleLess(Tail(a), Tail(b))
  ELSE StrLess(Head(a), Head(b))

\* The order in which groupby (sort=True) yields its groups: by the key
\* columns, left to right; the year, an integer, is the last key column of
\* every groupby of the program.
KeyLess(a, b) == TupleLess(a.s, b.s) \/ (a.s = b.s /\ a.year < b.year)

RECURSIVE SortKeys(_)
SortKeys(K) ==
  IF K = {} THEN <<>>
  ELSE LET m == CHOOSE x \in K : \A y \in K \ {x} : KeyLess(x, y)
       IN <<m>> \o SortKeys(K \ {m})

\* Mutant: the two aggregate columns are named the wrong way round
GroupBy_Swapped(t, cols) ==
  LET KeyOf(r) == [s |-> [k \in 1..Len(cols) |-> r[cols[k]]], year |-> r.year]
      idx == {i \in 1..Len(t) : \A k \in 1..Len(cols) : t[i][cols[k]] # NULL}
      keys == SortKeys({KeyOf(t[i]) : i \in idx})
  IN [j \in 1..Len(keys) |->
        LET members == {i \in idx : KeyOf(t[i]) = keys[j]}
        IN [key |-> keys[j],
            count |-> SumAmt(t, members),
            amount |-> Cardinality(members)]]

\* A row is in no group when one of its key cells is null (dropna=True).
GroupBy(t, cols) ==
  LET KeyOf(r) == [s |-> [k \in 1..Len(cols) |-> r[cols[k]]], year |-> r.year]
      idx == {i \in 1..Len(t) : \A k \in 1..Len(cols) : t[i][cols[k]] # NULL}
      keys == SortKeys({KeyOf(t[i]) : i \in idx})
  IN [j \in 1..Len(keys) |->
        LET members == {i \in idx : KeyOf(t[i]) = keys[j]}
        IN [key |-> keys[j],
            count |-> Cardinality(members),
            amount |-> SumAmt(t, members)]]

\* The loop "for _, row in grouped.iterrows()" over a dict keyed by id: a step
\* is the entity the row would create, with the row's year and figures.  The
\* dict is the sequence of its values in insertion order.
\* Mutant: the assignment replaces the years mapping instead of one key
DictSet_Replace(years, year, count, amount) ==
  (year :> [count |-> count, amount |-> amount])

DictSet(years, year, count, amount) ==
  (year :> [count |-> count, amount |-> amount]) @@ years

\* Mutant: the loop without its "if composite_id not in ..." lookup
Upsert_NoLookup(acc, step) ==
  Append(acc, [step.ent EXCEPT !.years =
                 DictSet(<<>>, step.year, step.count, step.amount)])

Upsert(acc, step) ==
  IF \E k \in 1..Len(acc) : acc[k].id = step.ent.id
  THEN LET k == CHOOSE j \in 1..Len(acc) : acc[j].id = step.ent.id
       IN [acc EXCEPT ![k].years =
             DictSet(@, step.year, step.count, step.amount)]
  ELSE Append(acc, [step.ent EXCEPT !.years =
             DictSet(<<>>, step.year, step.count, step.amount)])

RECURSIVE BuildNested(_, _)
BuildNested(acc, steps) ==
  IF steps = <<>> THEN acc
  ELSE BuildNested(Upsert(acc, Head(steps)), Tail(steps))

\* sorted(values, key=...): stable, ascending by a tuple of strings
RECURSIVE SortIdx(_, _)
SortIdx(S, keys) ==
  IF S = {} THEN <<>>
  ELSE LET m == CHOOSE i \in S : \A j \in S \ {i} :
                  \/ TupleLess(keys[i], keys[j])
                  \/ (~TupleLess(keys[j], keys[i]) /\ i < j)
       IN <<m>> \o SortIdx(S \ {m}, keys)

\* Mutant: the list is left in insertion order
Sorted_Unsorted(seq, keys) == seq

Sorted(seq, keys) ==
  LET order == SortIdx(1..Len(seq), keys)
  IN [i \in 1..Len(seq) |-> seq[order[i]]]

-----------------------------------------------------------------------------
(* Description resolution *)

\* group.groupby(col)['amt'].sum().sort_values(ascending=False): the distinct
\* non-null values of col among the rows idx, by descending summed amount;
\* equal sums stay in ascending order of the value.
\* Mutant: sort_values without ascending=False
RECURSIVE SortDescending_Ascending(_, _)
SortDescending_Ascending(S, ser) ==
  IF S = {} THEN <<>>
  ELSE LET m == CHOOSE i \in S : \A j \in S \ {i} :
                  \/ ser[i].amount < ser[j].amount
                  \/ (ser[i].amount = ser[j].amount /\ i < j)
       IN <<ser[m]>> \o SortDescending_Ascending(S \ {m}, ser)

RECURSIVE SortDescending(_, _)
SortDescending(S, ser) ==
  IF S = {} THEN <<>>
  ELSE LET m == CHOOSE i \in S : \A j \in S \ {i} :
                  \/ ser[i].amount > ser[j].amount
                  \/ (ser[i].amount = ser[j].amount /\ i < j)
       IN <<ser[m]>> \o SortDescending(S \ {m}, ser)

desc_amounts(t, idx, col) ==
  LET vals == {t[i][col] : i \in {j \in idx : t[j][col] # NULL}}
      keys == SortKeys({[s |-> <<v>>, year |-> 0] : v \in vals})
      ser == [k \in 1..Len(keys) |->
                [desc |-> keys[k].s[1],
                 amount |-> SumAmt(t, {i \in idx : t[i][col] = keys[k].s[1]})]]
  IN SortDescending(1..Len(ser), ser)

\* "desc and str(desc).lower() != 'nan' and str(desc).strip()"
is_usable_description(desc) ==
  /\ desc # <<>>
  /\ Lower(Str(desc)) # S_nan
  /\ StripNonEmpty(Str(desc))

\* The position at which a scan of desc_amounts breaks: the first of hits,
\* or 0 when the loop ends without a break
FirstWhere(hits) ==
  IF hits = {} THEN 0 ELSE CHOOSE i \in hits : \A j \in hits : i <= j

NameHits(da) == {i \in 1..Len(da) : is_department_name(da[i].desc)}

UsableHits(da) == {i \in 1..Len(da) : is_usable_description(da[i].desc)}

\* dict.get(key, default)
DictGet(d, key, default) == IF key \in DOMAIN d THEN d[key] ELSE default

\* Mutant: the amount pass runs before the name pass
ResolveDescription_AmountFirst(descriptions, key, da, first) ==
  LET byName == FirstWhere(NameHits(da))
      byAmount == FirstWhere(UsableHits(da))
  IN IF byAmount # 0 THEN (key :> Str(da[byAmount].desc)) @@ descriptions
     ELSE IF byName # 0 THEN (key :> Str(da[byName].desc)) @@ descriptions
     ELSE (key :> Str(first)) @@ descriptions

\* The three passes over desc_amounts that fill descriptions[key]; first is
\* the description cell of the first row of the group (".iloc[0]").  The
\* first pass assigns; the two fallbacks run only while the key is absent.
ResolveDescription(descriptions, key, da, first) ==
  LET byName == FirstWhere(NameHits(da))
      byAmount == FirstWhere(UsableHits(da))
  IN IF byName # 0 THEN (key :> Str(da[byName].desc)) @@ descriptions
     ELSE IF key \in DOMAIN descriptions THEN descriptions
     ELSE IF byAmount # 0 THEN (key :> Str(da[byAmount].desc)) @@ descriptions
     ELSE (key :> Str(first)) @@ descriptions

-----------------------------------------------------------------------------
(* to_slug *)

RECURSIVE KeepSlugChars(_)
KeepSlugChars(s) ==
  IF s = <<>> THEN <<>>
  ELSE LET c == IF Head(s) = " " THEN "-" ELSE LowerChar(Head(s))
           keep == \/ c = "-"
                   \/ \E i \in 1..26 : LowerCs[i] = c
                   \/ \E i \in 1..10 : DigitCs[i] = c
       IN (IF keep THEN <<c>> ELSE <<>>) \o KeepSlugChars(Tail(s))

RECURSIVE CollapseHyphens(_)
CollapseHyphens(s) ==
  IF Len(s) < 2 THEN s
  ELSE IF s[1] = "-" /\ s[2] = "-" THEN CollapseHyphens(Tail(s))
  ELSE <<Head(s)>> \o CollapseHyphens(Tail(s))

StripHyphens(s) ==
  LET inner == {i \in 1..Len(s) : s[i] # "-"}
  IN IF inner = {} THEN <<>>
     ELSE SubSeq(s, CHOOSE i \in inner : \A j \in inner : i <= j,
                    CHOOSE i \in inner : \A j \in inner : j <= i)

to_slug(text) == StripHyphens(CollapseHyphens(KeepSlugChars(text)))

-----------------------------------------------------------------------------
(* The level builders.  A builder returns [raised, result]: raised is TRUE   *)
(* when the call ends in an exception.                                      *)

SEP == <<"-">>

\* Mutant: agencies keyed by their own code alone
AgencyId_CodeOnly(dept_id, agency_code) == agency_code

\* f"{dept_id}-{agency_code}": the key of an agency
AgencyId(dept_id, agency_code) == dept_id \o SEP \o agency_code

\* Mutant: the parent reference is the bare agency code
AgencyRef_CodeOnly(dept_id, agency_code) == agency_code

\* 'agency_id': f"{dept_id}-{agency_code}": a leaf entity's parent reference
AgencyRef(dept_id, agency_code) == dept_id \o SEP \o agency_code

\* f"{dept_id}-{agency_code}-{own}": the key of a leaf entity
LeafId(dept_id, agency_code, own) ==
  dept_id \o SEP \o agency_code \o SEP \o own

\* Positions of the rows of t whose cells in cols equal vals; a comparison
\* with a null ("df[col] == None") is true of no row.
RowsWhere(t, cols, vals) ==
  {i \in 1..Len(t) : \A k \in 1..Len(cols) :
      vals[k] # NULL /\ t[i][cols[k]] = vals[k]}

FirstOf(S) == CHOOSE i \in S : \A j \in S : i <= j

\* df['department'].unique(): the distinct values in order of first occurrence
unique(t, col) ==
  LET firsts == {i \in 1..Len(t) : \A j \in 1..(i - 1) : t[j][col] # t[i][col]}
      RECURSIVE Asc(_)
      Asc(S) == IF S = {} THEN <<>>
                ELSE <<t[FirstOf(S)][col]>> \o Asc(S \ {FirstOf(S)})
  IN Asc(firsts)

\* One iteration of a description loop: acc is [raised, d], d the dict so far.
\* The final fallback reads ".iloc[0]", which raises IndexError on an empty
\* selection.
DescriptionStep(t, acc, key, rows, col) ==
  LET da == desc_amounts(t, rows, col)
      settled == \/ FirstWhere(NameHits(da)) # 0
                 \/ key \in DOMAIN acc.d
                 \/ FirstWhere(UsableHits(da)) # 0
  IN IF acc.raised \/ (~settled /\ rows = {})
     THEN [raised |-> TRUE, d |-> acc.d]
     ELSE [raised |-> FALSE,
           d |-> ResolveDescription(acc.d, key, da,
                   IF rows = {} THEN NULL ELSE t[FirstOf(rows)][col])]

RECURSIVE FoldDeptDescriptions(_, _, _)
FoldDeptDescriptions(t, ids, acc) ==
  IF ids = <<>> THEN acc
  ELSE FoldDeptDescriptions(t, Tail(ids),
         DescriptionStep(t, acc, Str(Head(ids)),
                         RowsWhere(t, <<"department">>, <<Head(ids)>>),
                         "uacs_dpt_dsc"))

dept_descriptions(t) ==
  FoldDeptDescriptions(t, unique(t, "department"),
                       [raised |-> FALSE, d |-> <<>>])

DepartmentSteps(t, descriptions) ==
  LET grouped == GroupBy(t, <<"department">>)
  IN [j \in 1..Len(grouped) |->
        LET dept_id == Str(grouped[j].key.s[1])
            description == DictGet(descriptions, dept_id, dept_id)
        IN [ent |-> [id |-> dept_id,
                     slug |-> to_slug(description),
                     description |-> description,
                     years |-> <<>>],
            year |-> IntToStr(grouped[j].key.year),
            count |-> grouped[j].count,
            amount |-> grouped[j].amount]]

create_department_aggregates(t) ==
  LET dd == dept_descriptions(t)
      departments == BuildNested(<<>>, DepartmentSteps(t, dd.d))
  IN IF dd.raised THEN [raised |-> TRUE, result |-> <<>>]
     ELSE [raised |-> FALSE,
           result |-> Sorted(departments,
                        [i \in 1..Len(departments) |-> <<departments[i].id>>])]

\* for (dept_id, agency_code), group in df.groupby(['department', 'agency'])
AgencyGroups(t) ==
  LET idx == {i \in 1..Len(t) : t[i].department # NULL /\ t[i].agency # NULL}
  IN SortKeys({[s |-> <<t[i].department, t[i].agency>>, year |-> 0] : i \in idx})

RECURSIVE FoldAgencyDescriptions(_, _, _)
FoldAgencyDescriptions(t, groups, acc) ==
  IF groups = <<>> THEN acc
  ELSE LET k == Head(groups).s
       IN FoldAgencyDescriptions(t, Tail(groups),
            DescriptionStep(t, acc, AgencyId(Str(k[1]), Str(k[2])),
                            RowsWhere(t, <<"department", "agency">>, k),
                            "uacs_agy_dsc"))

agency_descriptions(t) ==
  FoldAgencyDescriptions(t, AgencyGroups(t), [raised |-> FALSE, d |-> <<>>])

AgencySteps(t, descriptions) ==
  LET grouped == GroupBy(t, <<"agency", "department">>)
  IN [j \in 1..Len(grouped) |->
        LET dept_id == Str(grouped[j].key.s[2])
            agency_code == Str(grouped[j].key.s[1])
            composite_id == AgencyId(dept_id, agency_code)
            description == DictGet(descriptions, composite_id, agency_code)
        IN [ent |-> [id |-> composite_id,
                     slug |-> to_slug(description),
                     agency_code |-> agency_code,
                     description |-> description,
                     department_id |-> dept_id,
                     years |-> <<>>],
            year |-> IntToStr(grouped[j].key.year),
            count |-> grouped[j].count,
            amount |-> grouped[j].amount]]

create_agency_aggregates(t) ==
  LET ad == agency_descriptions(t)
      agencies == BuildNested(<<>>, AgencySteps(t, ad.d))
  IN IF ad.raised THEN [raised |-> TRUE, result |-> <<>>]
     ELSE [raised |-> FALSE,
           result |-> Sorted(agencies,
                        [i \in 1..Len(agencies) |->
                           <<agencies[i].department_id, agencies[i].agency_code>>])]

\* Mutant: the filter keeps the empty string
NotEmpty_NullOnly(t, col) == SelectSeq(t, LAMBDA r : r[col] # NULL)

\* df[df[col].notna() & (df[col] != '')]
NotEmpty(t, col) == SelectSeq(t, LAMBDA r : r[col] # NULL /\ r[col] # <<>>)

\* df[df[col].notna() & (df[col] != '') & (df[col] != 'nan')]
NotEmptyNotNan(t, col) ==
  SelectSeq(t, LAMBDA r : r[col] # NULL /\ r[col] # <<>> /\ r[col] # S_nan)

FundSubcategorySteps(t) ==
  LET df_filtered == NotEmpty(t, "uacs_fundsubcat_dsc")
      grouped == GroupBy(df_filtered,
                         <<"uacs_fundsubcat_dsc", "department", "agency">>)
  IN [j \in 1..Len(grouped) |->
        LET dept_id == Str(grouped[j].key.s[2])
            agency_code == Str(grouped[j].key.s[3])
            fund_desc == grouped[j].key.s[1]
            composite_id == LeafId(dept_id, agency_code, fund_desc)
        IN [ent |-> [id |-> composite_id,
                     slug |-> to_slug(fund_desc),
                     description |-> fund_desc,
                     department_id |-> dept_id,
                     agency_id |-> AgencyRef(dept_id, agency_code),
                     years |-> <<>>],
            year |-> IntToStr(grouped[j].key.year),
            count |-> grouped[j].count,
            amount |-> grouped[j].amount]]

create_fund_subcategory_aggregates(t) ==
  LET fund_subcats == BuildNested(<<>>, FundSubcategorySteps(t))
  IN [raised |-> FALSE,
      result |-> Sorted(fund_subcats,
                   [i \in 1..Len(fund_subcats) |->
                      <<fund_subcats[i].department_id, fund_subcats[i].agency_id,
                        fund_subcats[i].description>>])]

\* The expense and object loops differ only in their columns.
CodedSteps(df_filtered, cd, dsc, code_field) ==
  LET grouped == GroupBy(df_filtered, <<cd, dsc, "department", "agency">>)
  IN [j \in 1..Len(grouped) |->
        LET dept_id == Str(grouped[j].key.s[3])
            agency_code == Str(grouped[j].key.s[4])
            code == Str(grouped[j].key.s[1])
            composite_id == LeafId(dept_id, agency_code, code)
        IN [ent |-> (code_field :> code) @@
                    [id |-> composite_id,
                     slug |-> to_slug(grouped[j].key.s[2]),
                     description |-> grouped[j].key.s[2],
                     department_id |-> dept_id,
                     agency_id |-> AgencyRef(dept_id, agency_code),
                     years |-> <<>>],
            year |-> IntToStr(grouped[j].key.year),
            count |-> grouped[j].count,
            amount |-> grouped[j].amount]]

SortedCoded(ents, code_field) ==
  Sorted(ents, [i \in 1..Len(ents) |->
                  <<ents[i].department_id, ents[i].agency_id,
                    ents[i][code_field]>>])

create_expense_aggregates(t) ==
  LET expenses == BuildNested(<<>>,
        CodedSteps(NotEmpty(t, "uacs_exp_dsc"), "uacs_exp_cd", "uacs_exp_dsc",
                   "expense_code"))
  IN [raised |-> FALSE, result |-> SortedCoded(expenses, "expense_code")]

create_object_aggregates(t) ==
  LET objects == BuildNested(<<>>,
        CodedSteps(NotEmptyNotNan(t, "uacs_sobj_dsc"),
                   "uacs_sobj_cd", "uacs_sobj_dsc", "object_code"))
  IN [raised |-> FALSE, result |-> SortedCoded(objects, "object_code")]

RECURSIVE SortInts(_)
SortInts(S) ==
  IF S = {} THEN <<>>
  ELSE LET m == CHOOSE x \in S : \A y \in S : x <= y
       IN <<m>> \o SortInts(S \ {m})

\* Mutant: every year gets the count of the whole table
create_yearly_totals_AllYears(t) ==
  LET years == SortInts({t[i].year : i \in 1..Len(t)})
  IN [raised |-> FALSE,
      result |-> [j \in 1..Len(years) |->
                    LET members == {i \in 1..Len(t) : t[i].year = years[j]}
                    IN [year |-> years[j],
                        count |-> Len(t),
                        amount |-> SumAmt(t, members)]]]

create_yearly_totals(t) ==
  LET years == SortInts({t[i].year : i \in 1..Len(t)})
  IN [raised |-> FALSE,
      result |-> [j \in 1..Len(years) |->
                    LET members == {i \in 1..Len(t) : t[i].year = years[j]}
                    IN [year |-> years[j],
                        count |-> Cardinality(members),
                        amount |-> SumAmt(t, members)]]]

-----------------------------------------------------------------------------
(* Input tables *)

MaxRows == 2

D_XYZ == <<"X","Y","Z"," ","P","r","o","g","r","a","m">>
D_DOT == <<"D","e","p","a","r","t","m","e","n","t"," ","o","f"," ",
           "T","e","s","t","i","n","g"," ","(","D","O","T",")">>
D_ABC == <<"A","B","C">>
D_Office == <<"O","f","f","i","c","e"," ","o","f"," ","T">>
D_NaN == <<"N","a","N">>
D_blank == <<" ">>
D_PS == <<"P","S">>
D_MOOE == <<"M","O","O","E">>
D_Sal == <<"S","a","l">>
D_Wages == <<"W","a","g","e","s">>
D_Fund == <<"F","1">>

Base ==
  [department |-> <<"0","1">>, uacs_dpt_dsc |-> D_XYZ,
   agency |-> <<"A","1">>, uacs_agy_dsc |-> D_XYZ,
   uacs_fundsubcat_dsc |-> D_Fund,
   uacs_exp_cd |-> <<"E","1">>, uacs_exp_dsc |-> D_PS,
   uacs_sobj_cd |-> <<"O","1">>, uacs_sobj_dsc |-> D_Sal,
   year |-> 2024, amt |-> 100]

WithDesc(d, a) ==
  [Base EXCEPT !.uacs_dpt_dsc = d, !.uacs_agy_dsc = d, !.amt = a]

\* Rows that vary the department and agency descriptions and the amount
DescRows ==
  {WithDesc(D_XYZ, 100), WithDesc(D_XYZ, 50), WithDesc(D_DOT, 50),
   WithDesc(D_DOT, 100), WithDesc(<<>>, 200), WithDesc(S_nan, 50),
   WithDesc(D_blank, 50), WithDesc(NULL, 50), WithDesc(D_ABC, 200),
   WithDesc(D_Office, 100), WithDesc(D_NaN, 200)}

\* Rows that vary the grouping keys
KeyRows ==
  {[Base EXCEPT !.department = <<"0","2">>, !.uacs_agy_dsc = D_DOT],
   [Base EXCEPT !.agency = <<"A","2">>, !.year = 2025, !.amt = 200],
   [Base EXCEPT !.department = NULL],
   [Base EXCEPT !.agency = NULL],
   [Base EXCEPT !.year = 2025]}

\* Rows that vary the leaf columns
LeafRows ==
  {[Base EXCEPT !.uacs_exp_dsc = <<>>],
   [Base EXCEPT !.uacs_exp_dsc = <<>>, !.year = 2025],
   [Base EXCEPT !.uacs_exp_dsc = NULL],
   [Base EXCEPT !.uacs_exp_dsc = S_nan],
   [Base EXCEPT !.uacs_exp_dsc = D_MOOE, !.amt = 50],
   [Base EXCEPT !.uacs_exp_cd = <<"E","2">>],
   [Base EXCEPT !.uacs_exp_cd = NULL],
   [Base EXCEPT !.uacs_sobj_dsc = <<>>],
   [Base EXCEPT !.uacs_sobj_dsc = NULL],
   [Base EXCEPT !.uacs_sobj_dsc = S_nan],
   [Base EXCEPT !.uacs_sobj_dsc = D_Wages, !.amt = 50],
   [Base EXCEPT !.uacs_fundsubcat_dsc = <<>>],
   [Base EXCEPT !.uacs_fundsubcat_dsc = NULL],
   [Base EXCEPT !.uacs_fundsubcat_dsc = S_nan],
   [Base EXCEPT !.uacs_fundsubcat_dsc = D_PS]}

Rows == DescRows \cup KeyRows \cup LeafRows

\* The scenario of the specification: three rows under department 01
ScenarioTable ==
  <<[Base EXCEPT !.amt = 100], [Base EXCEPT !.amt = 50],
    [Base EXCEPT !.agency = <<"A","2">>, !.year = 2025, !.amt = 200]>>

Tables ==
  UNION {[1..n -> Rows] : n \in 0..MaxRows} \cup {ScenarioTable}

-----------------------------------------------------------------------------
(* Numeric conversion *)

\* Optional[int]: None, or <<y>> for the integer y
None == <<>>

IsDigit(c) == \E i \in 1..10 : DigitCs[i] = c

DigitVal(c) == (CHOOSE i \in 1..10 : DigitCs[i] = c) - 1

AllDigits(s) == s # <<>> /\ \A i \in 1..Len(s) : IsDigit(s[i])

RECURSIVE DigitsVal(_)
DigitsVal(s) ==
  IF s = <<>> THEN 0
  ELSE 10 * DigitsVal(SubSeq(s, 1, Len(s) - 1)) + DigitVal(s[Len(s)])

NaN == [nan |-> TRUE, whole |-> 0, frac |-> FALSE]

\* float(s) on the literals "[-]digits[.digits]"; any other text is a
\* ValueError, reported as nan.  whole is the integer part and frac tells
\* whether the value has a fractional part.
ParseFloat(s) ==
  LET neg == s # <<>> /\ Head(s) = "-"
      u == IF neg THEN Tail(s) ELSE s
      dots == {i \in 1..Len(u) : u[i] = "."}
      d == IF dots = {} THEN Len(u) + 1 ELSE CHOOSE i \in dots : TRUE
      ip == SubSeq(u, 1, d - 1)
      fp == SubSeq(u, d + 1, Len(u))
  IN IF \/ Cardinality(dots) > 1
        \/ ~AllDigits(ip)
        \/ (dots # {} /\ ~AllDigits(fp))
     THEN NaN
     ELSE [nan |-> FALSE,
           whole |-> IF neg THEN 0 - DigitsVal(ip) ELSE DigitsVal(ip),
           frac |-> \E i \in 1..Len(fp) : fp[i] # "0"]

\* pd.to_numeric(..., errors='coerce') of one cell: a null cell or a text
\* that is no number becomes NaN
to_numeric(val) == IF val = NULL THEN NaN ELSE ParseFloat(val)

\* pd.to_numeric(df['amt'], errors='coerce').fillna(0)
CoerceAmt(t) ==
  [i \in 1..Len(t) |->
     [t[i] EXCEPT !.amt = LET n == to_numeric(@)
                          IN IF n.nan THEN 0 ELSE n.whole]]

-----------------------------------------------------------------------------
(* main *)

Filenames ==
  <<"departments.json", "agencies.json", "fund_subcategories.json",
    "expenses.json", "objects.json", "yearly_totals.json">>

\* The columns of the table
Columns ==
  {"department", "uacs_dpt_dsc", "agency", "uacs_agy_dsc",
   "uacs_fundsubcat_dsc", "uacs_exp_cd", "uacs_exp_dsc",
   "uacs_sobj_cd", "uacs_sobj_dsc", "year", "amt"}

\* The columns a builder reads
Uses(filename) ==
  CASE filename = "departments.json" ->
         {"department", "uacs_dpt_dsc", "year", "amt"}
    [] filename = "agencies.json" ->
         {"department", "agency", "uacs_agy_dsc", "year", "amt"}
    [] filename = "fund_subcategories.json" ->
         {"uacs_fundsubcat_dsc", "department", "agency", "year", "amt"}
    [] filename = "expenses.json" ->
         {"uacs_exp_cd", "uacs_exp_dsc", "department", "agency", "year", "amt"}
    [] filename = "objects.json" ->
         {"uacs_sobj_cd", "uacs_sobj_dsc", "department", "agency", "year",
          "amt"}
    [] filename = "yearly_totals.json" -> {"year", "amt"}

\* The columns a builder reads only inside its description loop, whose body
\* runs once per department value and once per (department, agency) group
InLoop(filename) ==
  CASE filename = "departments.json" -> {"uacs_dpt_dsc"}
    [] filename = "agencies.json" -> {"uacs_agy_dsc"}
    [] OTHER -> {}

LoopRuns(filename, t) ==
  CASE filename = "departments.json" -> t # <<>>
    [] filename = "agencies.json" -> AgencyGroups(t) # <<>>
    [] OTHER -> FALSE

\* df[col] and groupby(col) raise KeyError when the table has no column col,
\* at the moment the statement that names col is executed
KeyError(filename, t) ==
  \/ ~((Uses(filename) \ InLoop(filename)) \subseteq columns)
  \/ LoopRuns(filename, t) /\ ~(InLoop(filename) \subseteq columns)

\* f"GAA {filename.replace('.json', '').replace('_', ' ').title()}"
Title(filename) ==
  CASE filename = "departments.json" -> "GAA Departments"
    [] filename = "agencies.json" -> "GAA Agencies"
    [] filename = "fund_subcategories.json" -> "GAA Fund Subcategories"
    [] filename = "expenses.json" -> "GAA Expenses"
    [] filename = "objects.json" -> "GAA Objects"
    [] filename = "yearly_totals.json" -> "GAA Yearly Totals"

\* Mutant: the item count is not taken from the data
Document_NoCount(filename, data) ==
  [filename |-> filename,
   metadata |-> [title |-> Title(filename),
                 source |-> "General Appropriations Act",
                 total_items |-> 0],
   data |-> data]

Document(filename, data) ==
  [filename |-> filename,
   metadata |-> [title |-> Title(filename),
                 source |-> "General Appropriations Act",
                 total_items |-> Len(data)],
   data |-> data]

\* No CSV batch: the run starts from an existing parquet file
NoCsv == [path |-> <<>>, header |-> NULL, rows |-> <<>>, default_year |-> None]

\* The state of a run of the SQL generator before it starts
SqlFresh ==
  [pc |-> "idle", output_dir |-> FALSE, aggregates |-> <<>>,
   files |-> <<>>, failed |-> <<>>]

\* The state before main runs, but for the files it is given
Fresh ==
  /\ csv = NoCsv
  /\ df = <<>>
  /\ pc = "start"
  /\ output_dir = FALSE
  /\ aggregates = <<>>
  /\ files = <<>>
  /\ failed = <<>>
  /\ sql = SqlFresh
  /\ split = [pc |-> "idle"]
  /\ search = [pc |-> "idle"]
  /\ sitemap = [pc |-> "idle"]

Init ==
  /\ \/ input = "ok" /\ parquet \in Tables /\ columns = Columns
     \/ input = "missing" /\ parquet = <<>> /\ columns = Columns
     \/ input = "ok" /\ parquet = <<>> /\ columns = Columns \ {"amt"}
  /\ amt_dtype = "float64"
  /\ unwritable = {}
  /\ Fresh

\* Mutant: the output directory is created before the parquet check
Start_MkdirFirst ==
  /\ pc = "start"
  /\ pc' = IF input = "ok" /\ "amt" \in columns
           THEN "departments.json" ELSE "exit1"
  /\ output_dir' = TRUE
  /\ df' = IF input # "ok" THEN <<>>
           ELSE IF "amt" \in columns /\ amt_dtype = "object"
                THEN CoerceAmt(parquet) ELSE parquet
  /\ UNCHANGED <<input, parquet, columns, amt_dtype, unwritable, csv,
                 aggregates, files, failed, sql, others>>

\* The parquet check, mkdir, read_parquet and the 'amt' column check
Start ==
  /\ pc = "start"
  /\ pc' = IF input = "ok" /\ "amt" \in columns
           THEN "departments.json" ELSE "exit1"
  /\ output_dir' = (input = "ok")
  /\ df' = IF input # "ok" THEN <<>>
           ELSE IF "amt" \in columns /\ amt_dtype = "object"
                THEN CoerceAmt(parquet) ELSE parquet
  /\ UNCHANGED <<input, parquet, columns, amt_dtype, unwritable, csv,
                 aggregates, files, failed, sql, others>>

\* One entry of the dict literal "aggregates = {...}": the builder's list is
\* kept, or its exception ends the run.
Builder(filename, r, next) ==
  /\ pc = filename
  /\ IF KeyError(filename, df) \/ r.raised
     THEN pc' = "raised" /\ aggregates' = aggregates
     ELSE pc' = next /\ aggregates' = (filename :> r.result) @@ aggregates
  /\ UNCHANGED <<input, parquet, columns, amt_dtype, unwritable, csv,
                 df, output_dir, files, failed, sql, others>>

CreateDepartments ==
  Builder("departments.json", create_department_aggregates(df), "agencies.json")

CreateAgencies ==
  Builder("agencies.json", create_agency_aggregates(df),
          "fund_subcategories.json")

CreateFundSubcategories ==
  Builder("fund_subcategories.json", create_fund_subcategory_aggregates(df),
          "expenses.json")

CreateExpenses ==
  Builder("expenses.json", create_expense_aggregates(df), "objects.json")

CreateObjects ==
  Builder("objects.json", create_object_aggregates(df), "yearly_totals.json")

CreateYearlyTotals ==
  Builder("yearly_totals.json", create_yearly_totals(df), "write")

\* Mutant: the files are written from the last level to the first
WriteFile_Reversed ==
  /\ pc = "write"
  /\ LET filename == Filenames[Len(Filenames) - Len(files) - Len(failed)]
     IN IF filename \in unwritable
        THEN files' = files /\ failed' = Append(failed, filename)
        ELSE /\ files' = Append(files, Document(filename, aggregates[filename]))
             /\ failed' = failed
  /\ pc' = IF Len(files) + Len(failed) + 1 = Len(Filenames)
           THEN "done" ELSE "write"
  /\ UNCHANGED <<input, parquet, columns, amt_dtype, unwritable, csv,
                 df, output_dir, aggregates, sql, others>>

\* One iteration of "for filename, data in aggregates.items()": the document
\* is written, or the exception of open/json.dump is caught and printed and
\* the loop goes on.  After the last iteration main prints its success
\* message and returns.
WriteFile ==
  /\ pc = "write"
  /\ LET filename == Filenames[Len(files) + Len(failed) + 1]
     IN IF filename \in unwritable
        THEN files' = files /\ failed' = Append(failed, filename)
        ELSE /\ files' = Append(files, Document(filename, aggregates[filename]))
             /\ failed' = failed
  /\ pc' = IF Len(files) + Len(failed) + 1 = Len(Filenames)
           THEN "done" ELSE "write"
  /\ UNCHANGED <<input, parquet, columns, amt_dtype, unwritable, csv,
                 df, output_dir, aggregates, sql, others>>

Next ==
  \/ Start
  \/ CreateDepartments
  \/ CreateAgencies
  \/ CreateFundSubcategories
  \/ CreateExpenses
  \/ CreateObjects
  \/ CreateYearlyTotals
  \/ WriteFile

Spec == Init /\ [][Next]_vars

\* Tables for the runs that vary the files and not the rows
EnvTables == {<<>>, <<Base>>, ScenarioTable}

\* A parquet file that may lack one column, and output files that may be
\* unwritable
InitEnv ==
  /\ input = "ok"
  /\ parquet \in EnvTables
  /\ columns \in {Columns} \cup {Columns \ {c} : c \in Columns}
  /\ amt_dtype = "float64"
  /\ unwritable \in SUBSET {Filenames[k] : k \in 1..Len(Filenames)}
  /\ Fresh

SpecEnv == InitEnv /\ [][Next]_vars

-----------------------------------------------------------------------------
(* gaa_csv_to_parquet.py: the converter that writes the parquet file        *)

Strip(s) ==
  LET inner == {i \in 1..Len(s) : s[i] # " "}
  IN IF inner = {} THEN <<>>
     ELSE SubSeq(s, CHOOSE i \in inner : \A j \in inner : i <= j,
                    CHOOSE i \in inner : \A j \in inner : j <= i)

\* val.replace(',', '').replace(' ', '')
RemoveSeparators(s) == SelectSeq(s, LAMBDA c : c \notin {",", " "})

S_null == <<"n","u","l","l">>
S_NULL == <<"N","U","L","L">>
S_dash == <<" ","-"," "," "," ">>

\* Mutant: an invalid amount is read as 1
clean_numeric_value_InvalidOne(val) ==
  IF val = NULL THEN 1
  ELSE LET v == Strip(val)
       IN IF v \in {<<>>, S_nan, D_NaN, <<"-">>, S_dash, S_null, S_NULL}
          THEN 1
          ELSE LET w == IF Head(v) = "(" /\ v[Len(v)] = ")"
                        THEN <<"-">> \o RemoveSeparators(SubSeq(v, 2, Len(v) - 1))
                        ELSE RemoveSeparators(v)
                   n == ParseFloat(w)
               IN IF n.nan THEN 1 ELSE n.whole

\* A cell that is no string (a missing cell) and a text that float() rejects
\* are 0.0.  The amounts of the inputs are whole numbers.
clean_numeric_value(val) ==
  IF val = NULL THEN 0
  ELSE LET v == Strip(val)
       IN IF v \in {<<>>, S_nan, D_NaN, <<"-">>, S_dash, S_null, S_NULL}
          THEN 0
          ELSE LET w == IF Head(v) = "(" /\ v[Len(v)] = ")"
                        THEN <<"-">> \o RemoveSeparators(SubSeq(v, 2, Len(v) - 1))
                        ELSE RemoveSeparators(v)
                   n == ParseFloat(w)
               IN IF n.nan THEN 0 ELSE n.whole

\* os.path.basename
Basename(path) ==
  LET slashes == {i \in 1..Len(path) : path[i] = "/"}
  IN IF slashes = {} THEN path
     ELSE SubSeq(path, (CHOOSE i \in slashes : \A j \in slashes : j <= i) + 1,
                 Len(path))

\* re.search(r'(20\d{2})', basename): the leftmost match, as Optional[int]
extract_year_from_filename(filename) ==
  LET b == Basename(filename)
      hits == {i \in 1..(Len(b) - 3) :
                 /\ b[i] = "2" /\ b[i + 1] = "0"
                 /\ IsDigit(b[i + 2]) /\ IsDigit(b[i + 3])}
  IN IF hits = {} THEN None
     ELSE LET m == CHOOSE i \in hits : \A j \in hits : i <= j
          IN <<DigitsVal(SubSeq(b, m, m + 3))>>

\* The names a year column may have, in the order they are tried
YearCandidates ==
  <<<<"y","e","a","r">>, <<"Y","e","a","r">>, <<"Y","E","A","R">>,
    <<"y","r">>, <<"Y","r">>, <<"Y","R">>>>

\* c is the file: its path, the header of its year column (NULL when it has
\* none) and its rows [year, amt].  The result is [kind, rows]: kind is
\* "None", "raised" (an exception leaves the function) or "table".
load_csv_with_year(c, default_year) ==
  LET column == IF c.header = NULL THEN NULL ELSE Lower(Strip(c.header))
      found == {k \in 1..Len(YearCandidates) : YearCandidates[k] = column}
      year_col == IF found = {} THEN NULL
                  ELSE YearCandidates[CHOOSE k \in found : \A j \in found : k <= j]
      inferred_year == extract_year_from_filename(c.path)
      fill_val == IF inferred_year # None THEN inferred_year ELSE default_year
      n == Len(c.rows)
      nums == [i \in 1..n |-> to_numeric(c.rows[i].year)]
      Table(years) ==
        [kind |-> "table",
         rows |-> [i \in 1..n |->
                     [Base EXCEPT !.year = years[i],
                                  !.amt = clean_numeric_value(c.rows[i].amt)]]]
  IN IF year_col = NULL
     THEN IF fill_val = None THEN [kind |-> "None", rows |-> <<>>]
          ELSE Table([i \in 1..n |-> fill_val[1]])
     ELSE IF \E i \in 1..n : ~nums[i].nan /\ nums[i].frac
          THEN [kind |-> "raised", rows |-> <<>>]
          ELSE IF (\E i \in 1..n : nums[i].nan) /\ fill_val = None
               THEN [kind |-> "None", rows |-> <<>>]
               ELSE Table([i \in 1..n |->
                             IF nums[i].nan THEN fill_val[1] ELSE nums[i].whole])

\* main of the converter on a directory with the one file csv: the file is
\* skipped when load_csv_with_year returns None, and with no file left the
\* converter exits; otherwise the table is written as the parquet file.
LoadCsv ==
  /\ pc = "csv"
  /\ LET r == load_csv_with_year(csv, csv.default_year)
     IN CASE r.kind = "raised" ->
               pc' = "csv_raised" /\ UNCHANGED <<input, parquet>>
          [] r.kind = "None" ->
               pc' = "csv_exit1" /\ UNCHANGED <<input, parquet>>
          [] r.kind = "table" ->
               pc' = "start" /\ input' = "ok" /\ parquet' = r.rows
  /\ UNCHANGED <<columns, amt_dtype, unwritable, csv,
                 df, output_dir, aggregates, files, failed, sql, others>>

MaxCsvRows == 2

T_100 == <<"1","0","0">>
T_2c50 == <<"2",",","5","0">>
T_p50 == <<"(","5","0",")">>
T_abc == <<"a","b","c">>
T_2024 == <<"2","0","2","4">>
T_2024p5 == <<"2","0","2","4",".","5">>

\* The amt cells and the year cells of the files
AmtCells == {T_100, T_2c50, T_p50, T_abc, S_dash, NULL}

YearCells == {T_2024, T_abc, NULL, T_2024p5}

CsvRows ==
  {[year |-> y, amt |-> T_100] : y \in YearCells}
    \cup {[year |-> T_2024, amt |-> a] : a \in AmtCells}

CsvPaths ==
  {<<"g","a","a",".","c","s","v">>,
   <<"g","a","a","_","2","0","2","3",".","c","s","v">>,
   <<"2","0","1","9","/","g","a","a",".","c","s","v">>}

CsvHeaders == {<<" ","Y","e","a","r">>, <<"Y","R">>}

CsvFiles ==
  UNION {[path : CsvPaths, header : CsvHeaders, rows : [1..n -> CsvRows],
          default_year : {None, <<2022>>}] : n \in 0..MaxCsvRows}
    \cup
  UNION {[path : CsvPaths, header : {NULL},
          rows : [1..n -> {[year |-> NULL, amt |-> a] : a \in AmtCells}],
          default_year : {None, <<2022>>}] : n \in 0..MaxCsvRows}

\* Parquet tables whose amt column holds text (dtype object)
ObjectTables ==
  UNION {[1..n -> {[Base EXCEPT !.amt = a] : a \in AmtCells}] :
           n \in 0..MaxCsvRows}

\* Either a CSV file that the converter is about to read, or a parquet file
\* with an amt column of text that main is about to read
InitCsv ==
  /\ \/ /\ csv \in CsvFiles
        /\ pc = "csv"
        /\ input = "missing" /\ parquet = <<>> /\ amt_dtype = "float64"
     \/ /\ csv = NoCsv
        /\ pc = "start"
        /\ input = "ok" /\ parquet \in ObjectTables /\ amt_dtype = "object"
  /\ columns = Columns
  /\ unwritable = {}
  /\ df = <<>>
  /\ output_dir = FALSE
  /\ aggregates = <<>>
  /\ files = <<>>
  /\ failed = <<>>
  /\ sql = SqlFresh
  /\ split = [pc |-> "idle"]
  /\ search = [pc |-> "idle"]
  /\ sitemap = [pc |-> "idle"]

NextCsv == LoadCsv \/ Next

SpecCsv == InitCsv /\ [][NextCsv]_vars

-----------------------------------------------------------------------------
(* create_aggregates_sql.py: the SQL generator, run on the same parquet     *)
(* file once create_aggregates.py has ended.  The tables of the model give  *)
(* every expense and object code one description and no null code, so that  *)
(* the ORDER BY clauses leave no order of the groups open.                  *)

SQLSEP == <<":", ":">>

\* WHERE col IS NOT NULL AND col != 'nan' AND col != '' for each col of cols
SqlWhere(t, cols) ==
  SelectSeq(t, LAMBDA r :
    \A k \in 1..Len(cols) : r[cols[k]] \notin {NULL, S_nan, <<>>})

\* MIN(col) over the rows S of t: nulls are ignored, and the minimum of
\* nothing is NULL
SqlMin(t, S, col) ==
  LET vals == {t[i][col] : i \in S} \ {NULL}
  IN IF vals = {} THEN NULL
     ELSE CHOOSE v \in vals : \A w \in vals \ {v} : StrLess(v, w)

\* SELECT ..., COUNT(*), SUM(amt) ... GROUP BY cols, year ORDER BY cols, year
SqlGroupBy(t, cols) ==
  LET KeyOf(r) == [s |-> [k \in 1..Len(cols) |-> r[cols[k]]], year |-> r.year]
      keys == SortKeys({KeyOf(t[i]) : i \in 1..Len(t)})
  IN [j \in 1..Len(keys) |->
        LET members == {i \in 1..Len(t) : KeyOf(t[i]) = keys[j]}
        IN [key |-> keys[j],
            count |-> Cardinality(members),
            amount |-> SumAmt(t, members),
            dept_code |-> Str(SqlMin(t, members, "department")),
            agency_code |-> Str(SqlMin(t, members, "agency"))]]

SqlStep(g, ent) ==
  [ent |-> ent, year |-> IntToStr(g.key.year),
   count |-> g.count, amount |-> g.amount]

sql_create_department_aggregates(t) ==
  LET grouped == SqlGroupBy(SqlWhere(t, <<"uacs_dpt_dsc">>), <<"uacs_dpt_dsc">>)
      departments == BuildNested(<<>>,
        [j \in 1..Len(grouped) |->
           SqlStep(grouped[j],
                   [id |-> grouped[j].key.s[1],
                    code |-> grouped[j].dept_code,
                    description |-> grouped[j].key.s[1],
                    years |-> <<>>])])
  IN Sorted(departments,
            [i \in 1..Len(departments) |-> <<departments[i].description>>])

sql_create_agency_aggregates(t) ==
  LET cols == <<"uacs_dpt_dsc", "uacs_agy_dsc">>
      grouped == SqlGroupBy(SqlWhere(t, cols), cols)
      agencies == BuildNested(<<>>,
        [j \in 1..Len(grouped) |->
           LET dept_desc == grouped[j].key.s[1]
               agency_desc == grouped[j].key.s[2]
           IN SqlStep(grouped[j],
                      [id |-> dept_desc \o SQLSEP \o agency_desc,
                       agency_code |-> grouped[j].agency_code,
                       description |-> agency_desc,
                       department_id |-> dept_desc,
                       department_code |-> grouped[j].dept_code,
                       years |-> <<>>])])
  IN Sorted(agencies,
            [i \in 1..Len(agencies) |->
               <<agencies[i].department_id, agencies[i].description>>])

sql_create_fund_subcategory_aggregates(t) ==
  LET cols == <<"uacs_dpt_dsc", "uacs_agy_dsc", "uacs_fundsubcat_dsc">>
      grouped == SqlGroupBy(SqlWhere(t, cols), cols)
      fund_subcats == BuildNested(<<>>,
        [j \in 1..Len(grouped) |->
           LET dept_desc == grouped[j].key.s[1]
               agency_desc == grouped[j].key.s[2]
               fund_desc == grouped[j].key.s[3]
           IN SqlStep(grouped[j],
                      [id |-> dept_desc \o SQLSEP \o agency_desc
                                \o SQLSEP \o fund_desc,
                       description |-> fund_desc,
                       department_id |-> dept_desc,
                       agency_id |-> dept_desc \o SQLSEP \o agency_desc,
                       years |-> <<>>])])
  IN Sorted(fund_subcats,
            [i \in 1..Len(fund_subcats) |->
               <<fund_subcats[i].department_id, fund_subcats[i].agency_id,
                 fund_subcats[i].description>>])

\* The expense and object queries differ only in their columns.
SqlCoded(t, cd, dsc, code_field) ==
  LET grouped == SqlGroupBy(SqlWhere(t, <<"uacs_dpt_dsc", "uacs_agy_dsc", dsc>>),
                            <<"uacs_dpt_dsc", "uacs_agy_dsc", cd, dsc>>)
      ents == BuildNested(<<>>,
        [j \in 1..Len(grouped) |->
           LET dept_desc == grouped[j].key.s[1]
               agency_desc == grouped[j].key.s[2]
               desc == grouped[j].key.s[4]
           IN SqlStep(grouped[j],
                      (code_field :> Str(grouped[j].key.s[3])) @@
                      [id |-> dept_desc \o SQLSEP \o agency_desc
                                \o SQLSEP \o desc,
                       description |-> desc,
                       department_id |-> dept_desc,
                       agency_id |-> dept_desc \o SQLSEP \o agency_desc,
                       years |-> <<>>])])
  IN SortedCoded(ents, code_field)

sql_create_expense_aggregates(t) ==
  SqlCoded(t, "uacs_exp_cd", "uacs_exp_dsc", "expense_code")

sql_create_object_aggregates(t) ==
  SqlCoded(t, "uacs_sobj_cd", "uacs_sobj_dsc", "object_code")

sql_create_yearly_totals(t) ==
  LET years == SortInts({t[i].year : i \in 1..Len(t)})
  IN [j \in 1..Len(years) |->
        LET members == {i \in 1..Len(t) : t[i].year = years[j]}
        IN [year |-> years[j],
            count |-> Cardinality(members),
            amount |-> SumAmt(t, members)]]

SqlBuild(filename, t) ==
  CASE filename = "departments.json" -> sql_create_department_aggregates(t)
    [] filename = "agencies.json" -> sql_create_agency_aggregates(t)
    [] filename = "fund_subcategories.json" ->
         sql_create_fund_subcategory_aggregates(t)
    [] filename = "expenses.json" -> sql_create_expense_aggregates(t)
    [] filename = "objects.json" -> sql_create_object_aggregates(t)
    [] filename = "yearly_totals.json" -> sql_create_yearly_totals(t)

SqlDocument(filename, data) ==
  [filename |-> filename,
   metadata |-> [title |-> Title(filename),
                 source |-> "General Appropriations Act (SQL Version)",
                 total_items |-> Len(data)],
   data |-> data]

SqlUnchanged ==
  UNCHANGED <<input, parquet, columns, amt_dtype, unwritable, csv,
              df, pc, output_dir, aggregates, files, failed, others>>

\* The parquet check, the load into DuckDB, print_data_sample and mkdir.
\* print_data_sample queries amt and formats MIN(amt) with ":,.2f", which
\* raises TypeError when the table has no row.
SqlStart ==
  /\ pc \in {"done", "exit1", "raised"}
  /\ sql.pc = "idle"
  /\ sql' = IF input # "ok" THEN [sql EXCEPT !.pc = "exit1"]
            ELSE IF "amt" \notin columns \/ parquet = <<>>
                 THEN [sql EXCEPT !.pc = "raised"]
                 ELSE [sql EXCEPT !.pc = "build", !.output_dir = TRUE]
  /\ SqlUnchanged

\* One entry of the dict literal "aggregates = {...}"
SqlCreate ==
  /\ sql.pc = "build"
  /\ LET filename == Filenames[Cardinality(DOMAIN sql.aggregates) + 1]
     IN sql' = [sql EXCEPT
                  !.aggregates = (filename :> SqlBuild(filename, parquet)) @@ @,
                  !.pc = IF filename = Filenames[Len(Filenames)]
                         THEN "write" ELSE "build"]
  /\ SqlUnchanged

\* One iteration of the write loop
SqlWriteFile ==
  /\ sql.pc = "write"
  /\ LET k == Len(sql.files) + Len(sql.failed) + 1
         filename == Filenames[k]
     IN sql' = [sql EXCEPT
                  !.files = IF filename \in unwritable THEN @
                            ELSE Append(@, SqlDocument(filename,
                                             sql.aggregates[filename])),
                  !.failed = IF filename \in unwritable
                             THEN Append(@, filename) ELSE @,
                  !.pc = IF k = Len(Filenames) THEN "done" ELSE "write"]
  /\ SqlUnchanged

\* Tables in which the expense, object and fund columns do not vary
SqlTables ==
  UNION {[1..n -> DescRows \cup KeyRows] : n \in 0..MaxRows}
    \cup {ScenarioTable}

InitSql ==
  /\ \/ input = "ok" /\ parquet \in SqlTables /\ columns = Columns
     \/ input = "missing" /\ parquet = <<>> /\ columns = Columns
     \/ input = "ok" /\ parquet = <<>> /\ columns = Columns \ {"amt"}
  /\ amt_dtype = "float64"
  /\ unwritable = {}
  /\ Fresh

NextSql == Next \/ SqlStart \/ SqlCreate \/ SqlWriteFile

SpecSql == InitSql /\ [][NextSql]_vars

-----------------------------------------------------------------------------
(* Properties *)

LeafLevels == {"fund_subcategories.json", "expenses.json", "objects.json"}

EntityLevels == {"departments.json", "agencies.json"} \cup LeafLevels

Computed(name) == name \in DOMAIN aggregates

Keyed(r) == r.department # NULL /\ r.agency # NULL

\* The rows of the table that belong to the entity id of a level, read off the
\* documented key of the level (department code; department-agency;
\* department-agency-own code) and the level's exclusion of blank rows.
MappedRows(name, id) ==
  LET PairId(r) == Str(r.department) \o <<"-">> \o Str(r.agency)
  IN CASE name = "departments.json" ->
            {i \in 1..Len(df) : df[i].department # NULL
                                /\ Str(df[i].department) = id}
       [] name = "agencies.json" ->
            {i \in 1..Len(df) : Keyed(df[i]) /\ PairId(df[i]) = id}
       [] name = "fund_subcategories.json" ->
            {i \in 1..Len(df) :
               /\ Keyed(df[i])
               /\ df[i].uacs_fundsubcat_dsc \notin {NULL, <<>>}
               /\ PairId(df[i]) \o <<"-">> \o df[i].uacs_fundsubcat_dsc = id}
       [] name = "expenses.json" ->
            {i \in 1..Len(df) :
               /\ Keyed(df[i])
               /\ df[i].uacs_exp_dsc \notin {NULL, <<>>}
               /\ df[i].uacs_exp_cd # NULL
               /\ PairId(df[i]) \o <<"-">> \o df[i].uacs_exp_cd = id}
       [] name = "objects.json" ->
            {i \in 1..Len(df) :
               /\ Keyed(df[i])
               /\ df[i].uacs_sobj_dsc \notin {NULL, <<>>, S_nan}
               /\ df[i].uacs_sobj_cd # NULL
               /\ PairId(df[i]) \o <<"-">> \o df[i].uacs_sobj_cd = id}

RECURSIVE SumField(_, _, _)
SumField(years, field, K) ==
  IF K = {} THEN 0
  ELSE LET y == CHOOSE k \in K : TRUE
       IN years[y][field] + SumField(years, field, K \ {y})

\* C1: in the output list of every level builder no two entities have the
\* same id.
C1_UniqueIds ==
  \A name \in EntityLevels : Computed(name) =>
    \A i, j \in 1..Len(aggregates[name]) :
      aggregates[name][i].id = aggregates[name][j].id => i = j

\* Two groups of the expense groupby (one code, two descriptions) met in one
\* expense entity.
C1_Witness ==
  /\ pc = "done"
  /\ Len(aggregates["expenses.json"]) = 1
  /\ Len(CodedSteps(NotEmpty(df, "uacs_exp_dsc"), "uacs_exp_cd",
                    "uacs_exp_dsc", "expense_code")) = 2

Matches(list, field, v) == {k \in 1..Len(list) : list[k][field] = v}

\* C2: every agency's department_id is the id of exactly one department of
\* the run, and every fund-subcategory, expense and object entity's agency_id
\* is the id of exactly one agency of the run.
C2_ParentIntegrity ==
  /\ Computed("agencies.json") =>
       \A i \in 1..Len(aggregates["agencies.json"]) :
         Cardinality(Matches(aggregates["departments.json"], "id",
                       aggregates["agencies.json"][i].department_id)) = 1
  /\ \A name \in LeafLevels : Computed(name) =>
       \A i \in 1..Len(aggregates[name]) :
         Cardinality(Matches(aggregates["agencies.json"], "id",
                       aggregates[name][i].agency_id)) = 1

\* Leaf entities under two agencies, beside a department that has a row
\* without agency.
C2_Witness ==
  /\ pc = "done"
  /\ Len(aggregates["agencies.json"]) = 2
  /\ Len(aggregates["expenses.json"]) = 2
  /\ Len(aggregates["objects.json"]) = 2

\* C3: for every entity of every level, the amounts of its years add up to
\* the total amount of the rows that map to its key, and the counts of its
\* years add up to the number of those rows.
C3_Conservation ==
  \A name \in EntityLevels : Computed(name) =>
    \A i \in 1..Len(aggregates[name]) :
      LET e == aggregates[name][i]
          rows == MappedRows(name, e.id)
      IN /\ SumField(e.years, "amount", DOMAIN e.years) = SumAmt(df, rows)
         /\ SumField(e.years, "count", DOMAIN e.years) = Cardinality(rows)

\* C4: the keys of an entity's years are exactly the fiscal years, as
\* strings, of the rows that map to the entity.
C4_YearKeys ==
  \A name \in EntityLevels : Computed(name) =>
    \A i \in 1..Len(aggregates[name]) :
      LET e == aggregates[name][i]
      IN DOMAIN e.years =
           {IntToStr(df[r].year) : r \in MappedRows(name, e.id)}

\* A department with rows in two years, one of them without expense
\* description: the department has both years, the expense entity one.
C4_Witness ==
  /\ pc = "done"
  /\ \E i \in 1..Len(aggregates["departments.json"]) :
       Cardinality(DOMAIN aggregates["departments.json"][i].years) = 2
  /\ \E i \in 1..Len(aggregates["expenses.json"]) :
       Cardinality(DOMAIN aggregates["expenses.json"][i].years) = 1

Y2024 == <<"2","0","2","4">>

Y2025 == <<"2","0","2","5">>

\* C5: the three rows (01, A1, 2024, 100), (01, A1, 2024, 50),
\* (01, A2, 2025, 200) give one department 01 with 2024 = {2, 150} and
\* 2025 = {1, 200}, and exactly the agencies 01-A1 (2024 = {2, 150}) and
\* 01-A2 (2025 = {1, 200}), both with parent 01.
C5_Scenario ==
  (df = ScenarioTable /\ Computed("agencies.json")) =>
    /\ {[id |-> aggregates["departments.json"][i].id,
         years |-> aggregates["departments.json"][i].years] :
           i \in 1..Len(aggregates["departments.json"])} =
       {[id |-> <<"0","1">>,
         years |-> (Y2024 :> [count |-> 2, amount |-> 150])
                   @@ (Y2025 :> [count |-> 1, amount |-> 200])]}
    /\ Len(aggregates["departments.json"]) = 1
    /\ {[id |-> aggregates["agencies.json"][i].id,
         department_id |-> aggregates["agencies.json"][i].department_id,
         years |-> aggregates["agencies.json"][i].years] :
           i \in 1..Len(aggregates["agencies.json"])} =
       {[id |-> <<"0","1","-","A","1">>, department_id |-> <<"0","1">>,
         years |-> (Y2024 :> [count |-> 2, amount |-> 150])],
        [id |-> <<"0","1","-","A","2">>, department_id |-> <<"0","1">>,
         years |-> (Y2025 :> [count |-> 1, amount |-> 200])]}
    /\ Len(aggregates["agencies.json"]) = 2

C5_Witness == df = ScenarioTable /\ pc = "done"

\* The levels whose description is resolved, with their description column
Resolved ==
  {<<"departments.json", "uacs_dpt_dsc">>, <<"agencies.json", "uacs_agy_dsc">>}

\* The description variants of the rows S, and the summed amount of one
Variants(S, col) == {df[i][col] : i \in S} \ {NULL}

VSum(S, col, v) == SumAmt(df, {i \in S : df[i][col] = v})

NamedVariants(S, col) == {v \in Variants(S, col) : is_department_name(v)}

\* non-empty, not whitespace-only, not the null marker
UsableVariants(S, col) ==
  {v \in Variants(S, col) :
     /\ v # <<>>
     /\ \E k \in 1..Len(v) : v[k] # " "
     /\ Lower(v) # <<"n","a","n">>}

\* C6: when some description variant of a department or agency satisfies
\* is_department_name, the resolved description is such a variant, the one
\* first in descending order of summed amount, whatever the amounts of the
\* variants that do not satisfy it.
C6_PrefersNames ==
  \A lv \in Resolved : Computed(lv[1]) =>
    \A i \in 1..Len(aggregates[lv[1]]) :
      LET e == aggregates[lv[1]][i]
          S == MappedRows(lv[1], e.id)
          named == NamedVariants(S, lv[2])
      IN named # {} =>
           /\ e.description \in named
           /\ \A w \in named :
                VSum(S, lv[2], e.description) >= VSum(S, lv[2], w)

\* "XYZ Program" (100) and "Department of Testing (DOT)" (50)
C6_Witness ==
  /\ pc = "done"
  /\ df = <<WithDesc(D_XYZ, 100), WithDesc(D_DOT, 50)>>
  /\ aggregates["departments.json"][1].description = D_DOT
  /\ aggregates["agencies.json"][1].description = D_DOT

\* C7: when no variant satisfies is_department_name, the resolved
\* description is the usable variant (non-empty, not blank, not 'nan') with
\* the largest summed amount.
C7_FallbackLargest ==
  \A lv \in Resolved : Computed(lv[1]) =>
    \A i \in 1..Len(aggregates[lv[1]]) :
      LET e == aggregates[lv[1]][i]
          S == MappedRows(lv[1], e.id)
          usable == UsableVariants(S, lv[2])
      IN (NamedVariants(S, lv[2]) = {} /\ usable # {}) =>
           /\ e.description \in usable
           /\ \A w \in usable :
                VSum(S, lv[2], e.description) >= VSum(S, lv[2], w)

\* A department without name-like variant whose unusable variant has the
\* largest amount, and one with two usable variants of different amounts
C7_Witness ==
  /\ pc = "done"
  /\ \E i \in 1..Len(aggregates["departments.json"]) :
       LET e == aggregates["departments.json"][i]
           S == MappedRows("departments.json", e.id)
           vs == Variants(S, "uacs_dpt_dsc")
       IN /\ NamedVariants(S, "uacs_dpt_dsc") = {}
          /\ e.description \in UsableVariants(S, "uacs_dpt_dsc")
          /\ \E w \in vs : VSum(S, "uacs_dpt_dsc", w)
                             > VSum(S, "uacs_dpt_dsc", e.description)

\* C8: when every description variant of a department (agency) is empty,
\* blank or a null marker, the entity's description is its code.
C8_CodeFallback ==
  \A lv \in Resolved : Computed(lv[1]) =>
    \A i \in 1..Len(aggregates[lv[1]]) :
      LET e == aggregates[lv[1]][i]
          S == MappedRows(lv[1], e.id)
      IN UsableVariants(S, lv[2]) = {} =>
           IF lv[1] = "departments.json" THEN e.description = e.id
           ELSE e.description \in {e.agency_code, e.id}

\* C9: an agency code under two departments gives two entities
\* {department}-{agency}; each has the figures of the rows of its own
\* department and a description among the variants of its own rows.
C9_AgencyPerDepartment ==
  Computed("agencies.json") =>
    \A i, j \in 1..Len(df) :
      (/\ Keyed(df[i]) /\ Keyed(df[j])
       /\ df[i].agency = df[j].agency
       /\ df[i].department # df[j].department) =>
        LET own == {r \in 1..Len(df) :
                      /\ df[r].department = df[i].department
                      /\ df[r].agency = df[i].agency}
            id == Str(df[i].department) \o <<"-">> \o Str(df[i].agency)
            hits == Matches(aggregates["agencies.json"], "id", id)
        IN /\ Cardinality(hits) = 1
           /\ \A h \in hits :
                LET e == aggregates["agencies.json"][h]
                IN /\ e.department_id = Str(df[i].department)
                   /\ DOMAIN e.years = {IntToStr(df[r].year) : r \in own}
                   /\ \A r \in own :
                        LET same == {q \in own : df[q].year = df[r].year}
                        IN e.years[IntToStr(df[r].year)] =
                             [count |-> Cardinality(same),
                              amount |-> SumAmt(df, same)]
                   /\ e.description \in {Str(df[r].uacs_agy_dsc) : r \in own}

\* Agency A1 under departments 01 and 02 with different descriptions
C9_Witness ==
  /\ pc = "done"
  /\ \E a, b \in 1..Len(aggregates["agencies.json"]) :
       /\ aggregates["agencies.json"][a].agency_code =
            aggregates["agencies.json"][b].agency_code
       /\ aggregates["agencies.json"][a].department_id #
            aggregates["agencies.json"][b].department_id
       /\ aggregates["agencies.json"][a].description #
            aggregates["agencies.json"][b].description

LeafColumn(name) ==
  CASE name = "fund_subcategories.json" -> "uacs_fundsubcat_dsc"
    [] name = "expenses.json" -> "uacs_exp_dsc"
    [] name = "objects.json" -> "uacs_sobj_dsc"

LeafBuilder(name, t) ==
  CASE name = "fund_subcategories.json" -> create_fund_subcategory_aggregates(t)
    [] name = "expenses.json" -> create_expense_aggregates(t)
    [] name = "objects.json" -> create_object_aggregates(t)

Blank(r, col) == r[col] \in {NULL, <<>>}

\* The figures of the rows S in the year of row i
FiguresOf(S, i) ==
  LET same == {q \in S : df[q].year = df[i].year}
  IN [count |-> Cardinality(same), amount |-> SumAmt(df, same)]

\* C10: a row whose own-level description (fund-subcategory, expense,
\* object) is empty or null is counted and summed in its department, its
\* agency and the total of its year, and the level's output is what it would
\* be without the row.
C10_NullHandling ==
  Computed("yearly_totals.json") =>
    \A name \in LeafLevels :
      /\ \A i \in 1..Len(df) :
           (Keyed(df[i]) /\ Blank(df[i], LeafColumn(name))) =>
             /\ \E k \in 1..Len(aggregates["departments.json"]) :
                  LET e == aggregates["departments.json"][k]
                  IN /\ e.id = Str(df[i].department)
                     /\ IntToStr(df[i].year) \in DOMAIN e.years
                     /\ e.years[IntToStr(df[i].year)] =
                          FiguresOf({q \in 1..Len(df) :
                            df[q].department = df[i].department}, i)
             /\ \E k \in 1..Len(aggregates["agencies.json"]) :
                  LET e == aggregates["agencies.json"][k]
                  IN /\ e.department_id = Str(df[i].department)
                     /\ e.agency_code = Str(df[i].agency)
                     /\ IntToStr(df[i].year) \in DOMAIN e.years
                     /\ e.years[IntToStr(df[i].year)] =
                          FiguresOf({q \in 1..Len(df) :
                            /\ df[q].department = df[i].department
                            /\ df[q].agency = df[i].agency}, i)
             /\ \E k \in 1..Len(aggregates["yearly_totals.json"]) :
                  LET y == aggregates["yearly_totals.json"][k]
                  IN /\ y.year = df[i].year
                     /\ [count |-> y.count, amount |-> y.amount] =
                          FiguresOf(1..Len(df), i)
      /\ aggregates[name] =
           LeafBuilder(name,
             SelectSeq(df, LAMBDA r : ~Blank(r, LeafColumn(name)))).result

\* A row with an expense and one without: two rows in the department, one in
\* the expense entity
C10_Witness ==
  /\ pc = "done"
  /\ Len(df) = 2
  /\ Keyed(df[1]) /\ Blank(df[1], "uacs_exp_dsc")
  /\ ~Blank(df[2], "uacs_exp_dsc")
  /\ df[1].year = df[2].year
  /\ aggregates["departments.json"][1].years[IntToStr(df[1].year)].count = 2
  /\ Len(aggregates["expenses.json"]) = 1
  /\ aggregates["expenses.json"][1].years[IntToStr(df[1].year)].count = 1


-----------------------------------------------------------------------------
(* Rows with a null grouping key *)

\* C11: when the table has a row whose department code or agency code is
\* null, the run does not abort, and the department and agency lists are
\* those of the table without these rows.
C11_NullKeyDropped ==
  (\E i \in 1..Len(df) : ~Keyed(df[i])) =>
     /\ pc # "raised"
     /\ Computed("departments.json") =>
          aggregates["departments.json"] =
            create_department_aggregates(
              SelectSeq(df, LAMBDA r : r.department # NULL)).result
     /\ Computed("agencies.json") =>
          aggregates["agencies.json"] =
            create_agency_aggregates(SelectSeq(df, Keyed)).result


-----------------------------------------------------------------------------
(* Amounts that are no number *)

\* What each amt text of the inputs denotes, read off the text: under the
\* converter's rules (separators and accounting parentheses accepted) and
\* under pandas' to_numeric; None for a text that is no number.
CleanValue ==
  (T_100 :> <<100>>) @@ (T_2c50 :> <<250>>) @@ (T_p50 :> <<0 - 50>>)
    @@ (T_abc :> None) @@ (S_dash :> None) @@ (NULL :> None)

NumericValue ==
  (T_100 :> <<100>>) @@ (T_2c50 :> None) @@ (T_p50 :> None)
    @@ (T_abc :> None) @@ (S_dash :> None) @@ (NULL :> None)

\* The amt text of row i as the run found it, and what it denotes
RawAmt(i) == IF csv = NoCsv THEN parquet[i].amt ELSE csv.rows[i].amt

AmtValue(i) ==
  IF csv = NoCsv THEN NumericValue[RawAmt(i)] ELSE CleanValue[RawAmt(i)]

RECURSIVE SumValues(_)
SumValues(S) ==
  IF S = {} THEN 0
  ELSE LET i == CHOOSE j \in S : TRUE
       IN (IF AmtValue(i) = None THEN 0 ELSE AmtValue(i)[1])
            + SumValues(S \ {i})

\* The figures of every year of every department, agency and fund
\* subcategory, and of every yearly total, are those of the rows in Counted
\* that fall in the year (all rows of these inputs map to the same entity of
\* each level).
FiguresCount(Counted) ==
  /\ \A name \in DOMAIN aggregates \cap
                  {"departments.json", "agencies.json",
                   "fund_subcategories.json"} :
       \A k \in 1..Len(aggregates[name]) :
         \A y \in DOMAIN aggregates[name][k].years :
           LET members == {i \in Counted : IntToStr(df[i].year) = y}
           IN /\ aggregates[name][k].years[y].count = Cardinality(members)
              /\ aggregates[name][k].years[y].amount = SumValues(members)
  /\ Computed("yearly_totals.json") =>
       \A k \in 1..Len(aggregates["yearly_totals.json"]) :
         LET e == aggregates["yearly_totals.json"][k]
             members == {i \in Counted : df[i].year = e.year}
         IN e.count = Cardinality(members) /\ e.amount = SumValues(members)

\* C12 as stated: a row whose amount is no number adds neither to the count
\* nor to the amount of any entity, and the run does not abort.
C12_UnparsedExcluded ==
  /\ pc # "raised"
  /\ FiguresCount({i \in 1..Len(df) : AmtValue(i) # None})

\* C12 (amended): a row whose amount is no number is kept with amount 0: it
\* adds 1 to the count and 0 to the amount of every entity it maps to, and
\* the run does not abort.
C12_UnparsedAsZero ==
  /\ pc # "raised"
  /\ FiguresCount(1..Len(df))

C12_Witness ==
  /\ Computed("yearly_totals.json")
  /\ csv # NoCsv
  /\ \E i, j \in 1..Len(df) :
       /\ df[i].year = df[j].year
       /\ AmtValue(i) = None /\ AmtValue(j) # None


-----------------------------------------------------------------------------
(* Order of the output lists *)

Ascending(keys) ==
  \A i \in 1..(Len(keys) - 1) : ~TupleLess(keys[i + 1], keys[i])

KeysOf(name, fields) ==
  [i \in 1..Len(aggregates[name]) |->
     [k \in 1..Len(fields) |-> aggregates[name][i][fields[k]]]]

\* C13: every computed list is in ascending order of its natural key:
\* departments by id, agencies by (department id, agency code), fund
\* subcategories by (department id, agency id, description), expenses and
\* objects by (department id, agency id, own code), yearly totals by year.
C13_Sorted ==
  /\ Computed("departments.json") =>
       Ascending(KeysOf("departments.json", <<"id">>))
  /\ Computed("agencies.json") =>
       Ascending(KeysOf("agencies.json", <<"department_id", "agency_code">>))
  /\ Computed("fund_subcategories.json") =>
       Ascending(KeysOf("fund_subcategories.json",
                        <<"department_id", "agency_id", "description">>))
  /\ Computed("expenses.json") =>
       Ascending(KeysOf("expenses.json",
                        <<"department_id", "agency_id", "expense_code">>))
  /\ Computed("objects.json") =>
       Ascending(KeysOf("objects.json",
                        <<"department_id", "agency_id", "object_code">>))
  /\ Computed("yearly_totals.json") =>
       \A i \in 1..(Len(aggregates["yearly_totals.json"]) - 1) :
         aggregates["yearly_totals.json"][i].year
           <= aggregates["yearly_totals.json"][i + 1].year

\* Agency A2 of department 01 and agency A1 of department 02: the groupby
\* on (agency, department) yields them in the other order.
C13_Witness ==
  /\ Computed("yearly_totals.json")
  /\ Len(aggregates["agencies.json"]) = 2
  /\ aggregates["agencies.json"][1].agency_code = <<"A","2">>
  /\ aggregates["agencies.json"][2].agency_code = <<"A","1">>
  /\ Len(aggregates["yearly_totals.json"]) = 2


-----------------------------------------------------------------------------
(* The files of a run *)

\* A successful run: main has returned and no write has failed
Success == pc = "done" /\ failed = <<>>

\* C15: a successful run has written exactly one document per level, named
\* after the six levels, each a {metadata, data} pair whose metadata holds a
\* title, a source label and the item count; the item count of every
\* document written is the length of its data array.
C15_Documents ==
  /\ \A k \in 1..Len(files) :
       /\ DOMAIN files[k] = {"filename", "metadata", "data"}
       /\ DOMAIN files[k].metadata = {"title", "source", "total_items"}
       /\ files[k].metadata.total_items = Len(files[k].data)
  /\ Success =>
       /\ Len(files) = Len(Filenames)
       /\ \A k \in 1..Len(Filenames) :
            /\ files[k].filename = Filenames[k]
            /\ files[k].data = aggregates[Filenames[k]]

C15_Witness ==
  /\ Success
  /\ Len(files[2].data) = 2
  /\ files[2].metadata.total_items = 2

\* C16: when the parquet file is absent the run exits with status 1 and has
\* neither created the output directory nor written a file.
C16_MissingParquet ==
  input = "missing" =>
     /\ pc \in {"start", "exit1"}
     /\ ~output_dir
     /\ files = <<>>
     /\ aggregates = <<>>

C16_Witness == input = "missing" /\ pc = "exit1" /\ ~output_dir

\* C17: once the write of a file has failed the run has stopped with a
\* non-zero status: it writes nothing more and does not end in success.
C17_WriteFailureFatal == failed # <<>> => pc = "exit1"

\* C18: when a column that a level's builder reads is absent, no document of
\* that level is written and the run never reaches its write loop or its
\* successful end (it ends in exit status 1 or an uncaught exception);
\* without 'amt' the run ends before any builder is called.
C18_MissingColumn ==
  /\ \A k \in 1..Len(Filenames) :
       ~(Uses(Filenames[k]) \subseteq columns) =>
          /\ \A j \in 1..Len(files) : files[j].filename # Filenames[k]
          /\ pc \notin {"write", "done"}
  /\ "amt" \notin columns =>
       /\ pc \in {"start", "exit1"}
       /\ aggregates = <<>>


-----------------------------------------------------------------------------
(* The two generators *)

\* What the claim compares of a level's entities: id, description, parent
\* references and the figures per year (the yearly totals as they are)
Compared(name, list) ==
  IF name = "yearly_totals.json" THEN {list[k] : k \in 1..Len(list)}
  ELSE {[f \in DOMAIN list[k] \cap
               {"id", "description", "department_id", "agency_id", "years"}
           |-> list[k][f]] : k \in 1..Len(list)}

\* C19: when create_aggregates.py has computed its six levels, the SQL
\* generator run on the same table computes the same six levels, and each
\* level it has computed holds the same entities.
C19_SameOutput ==
  (pc = "done" /\ sql.pc # "idle") =>
     /\ sql.pc \in {"build", "write", "done"}
     /\ \A name \in DOMAIN sql.aggregates :
          Compared(name, sql.aggregates[name])
            = Compared(name, aggregates[name])


-----------------------------------------------------------------------------
(* The year of a CSV row *)

\* What each year cell and each path of the inputs denotes, read off the
\* text: the valid integer year of a cell, and the 20xx year in a file name
YearValue ==
  (T_2024 :> <<2024>>) @@ (T_abc :> None) @@ (NULL :> None)
    @@ (T_2024p5 :> None)

FileYear(path) ==
  IF path = <<"g","a","a","_","2","0","2","3",".","c","s","v">>
  THEN <<2023>> ELSE None

OwnYear(i) ==
  IF csv.header = NULL THEN None ELSE YearValue[csv.rows[i].year]

FillYear ==
  IF FileYear(csv.path) # None THEN FileYear(csv.path) ELSE csv.default_year

\* C20: load_csv_with_year returns None or a table: when some row has no
\* valid year of its own and neither the file name nor default_year gives
\* one, it returns None; a table it returns has, in every row, the row's own
\* valid year, else the year of the file name, else default_year.
C20_YearOrNone ==
  (csv # NoCsv /\ pc # "csv") =>
     /\ pc # "csv_raised"
     /\ (\E i \in 1..Len(csv.rows) : OwnYear(i) = None /\ FillYear = None)
          => pc = "csv_exit1"
     /\ pc \notin {"csv_exit1", "csv_raised"} =>
          /\ Len(parquet) = Len(csv.rows)
          /\ \A i \in 1..Len(csv.rows) :
               parquet[i].year = IF OwnYear(i) # None THEN OwnYear(i)[1]
                                 ELSE FillYear[1]


\* ---------------------------------------------------------------------------
\* split-csv.py and data/split-csv.py: split a CSV file into batch files
\* ---------------------------------------------------------------------------

MaxSplitRows == 5
MaxBatchSize == 3

SplitScripts == {"split-csv.py", "data/split-csv.py"}

\* A row read by csv.DictReader: extra is TRUE when the line has more fields
\* than the header, which DictReader stores under the key None.
SplitRowOf(i, bad) == [id |-> i, extra |-> (i = bad)]

\* Input files: no header line at all (an empty file), or a header and up to
\* MaxSplitRows rows of which at most one is longer than the header.
SplitInputs ==
  {[header |-> FALSE, rows |-> <<>>]} \cup
  {[header |-> TRUE, rows |-> [i \in 1..n |-> SplitRowOf(i, bad)]] :
     n \in 0..MaxSplitRows, bad \in 0..MaxSplitRows}

\* split-csv.py fixes BATCH_SIZE to a positive literal (a small stand-in
\* here); data/split-csv.py takes any int from --batch-size.
BatchSizes(script) ==
  IF script = "split-csv.py" THEN 1..MaxBatchSize ELSE 0..MaxBatchSize

\* The rows of b before the first one DictWriter rejects
RECURSIVE WritableRows(_)
WritableRows(b) ==
  IF b = <<>> \/ Head(b).extra THEN <<>>
  ELSE <<Head(b)>> \o WritableRows(Tail(b))

\* open(output_file, 'w'), writeheader, writerows(batch): the file is created;
\* writerows raises ValueError at a row with a field outside fieldnames.
WriteBatch(s, b) ==
  [s EXCEPT !.files = Append(@, [file_num |-> s.file_num,
                                 rows |-> WritableRows(b)]),
            !.pc = IF WritableRows(b) = b THEN s.pc ELSE "raised"]

SplitUnchanged ==
  UNCHANGED <<input, parquet, columns, amt_dtype, unwritable, csv,
              df, pc, output_dir, aggregates, files, failed, sql,
              search, sitemap>>

\* makedirs, open the input, read the header, initialise batch and file_num
SplitOpen ==
  /\ split.pc = "start"
  /\ split' = IF ~split.header /\ split.script = "data/split-csv.py"
              THEN [split EXCEPT !.output_dir = TRUE, !.pc = "raised"]
              ELSE [split EXCEPT !.output_dir = TRUE, !.pc = "loop",
                                 !.batch = <<>>, !.file_num = 1]
  /\ SplitUnchanged

\* One iteration of "for row in reader"
SplitRow ==
  /\ split.pc = "loop"
  /\ split.read < Len(split.rows)
  /\ LET row == split.rows[split.read + 1]
         batch == Append(split.batch, row)
         s == [split EXCEPT !.read = @ + 1, !.batch = batch]
     IN split' =
          IF Len(batch) >= split.BATCH_SIZE
          THEN LET w == WriteBatch(s, batch)
               IN IF w.pc = "raised" THEN w
                  ELSE [w EXCEPT !.batch = <<>>, !.file_num = @ + 1]
          ELSE s
  /\ SplitUnchanged

\* After the loop: write the remaining rows, then print the number of files
SplitEnd ==
  /\ split.pc = "loop"
  /\ split.read = Len(split.rows)
  /\ LET w == IF split.batch # <<>> THEN WriteBatch(split, split.batch)
              ELSE split
     IN split' = IF w.pc = "raised" THEN w
                 ELSE [w EXCEPT !.pc = "done", !.reported = <<w.file_num>>]
  /\ SplitUnchanged

InitSplit ==
  /\ input = "missing" /\ parquet = <<>> /\ columns = Columns
  /\ amt_dtype = "float64" /\ unwritable = {}
  /\ csv = NoCsv /\ df = <<>> /\ pc = "start" /\ output_dir = FALSE
  /\ aggregates = <<>> /\ files = <<>> /\ failed = <<>> /\ sql = SqlFresh
  /\ search = [pc |-> "idle"]
  /\ sitemap = [pc |-> "idle"]
  /\ \E script \in SplitScripts, f \in SplitInputs :
       \E size \in BatchSizes(script) :
         split = [pc |-> "start", script |-> script, header |-> f.header,
                  rows |-> f.rows, BATCH_SIZE |-> size, output_dir |-> FALSE,
                  read |-> 0, batch |-> <<>>, file_num |-> 0,
                  files |-> <<>>, reported |-> None]

NextSplit == SplitOpen \/ SplitRow \/ SplitEnd

SpecSplit == InitSplit /\ [][NextSplit]_vars

\* C21: the number N that split-csv prints at the end ("Split into N files")
\* equals the number of batch files it created, for every row count and
\* batch size, a row count of zero or an exact multiple of the batch size
\* included.
C21_ReportedCount ==
  split.pc = "done" => split.reported = <<Len(split.files)>>

RECURSIVE SplitConcat(_)
SplitConcat(fs) ==
  IF fs = <<>> THEN <<>> ELSE Head(fs).rows \o SplitConcat(Tail(fs))

SplitEnded == split.pc \in {"done", "raised"}

\* C28: split-csv partitions the input rows: each input row is in exactly one
\* batch file, the batch files concatenated in file-number order give the
\* input rows in order, each batch file holds at most BATCH_SIZE rows, each
\* but the last holds exactly BATCH_SIZE rows, and none is empty.
C28_Partition ==
  SplitEnded =>
    LET fs == split.files IN
    /\ \A i \in 1..Len(split.rows) :
         Cardinality({<<f, k>> \in (1..Len(fs)) \X (1..MaxSplitRows + 1) :
                        k <= Len(fs[f].rows)
                        /\ fs[f].rows[k] = split.rows[i]}) = 1
    /\ \A f \in 1..Len(fs) : fs[f].file_num = f
    /\ SplitConcat(fs) = split.rows
    /\ \A f \in 1..Len(fs) :
         /\ Len(fs[f].rows) <= split.BATCH_SIZE
         /\ f < Len(fs) => Len(fs[f].rows) = split.BATCH_SIZE
         /\ fs[f].rows # <<>>

\* The description column of a coded level
DescriptionOf(name, r) ==
  IF name = "expenses.json" THEN r.uacs_exp_dsc ELSE r.uacs_sobj_dsc

\* C22: when one expense (object) code occurs under one department and agency
\* with two or more descriptions in the same year, the entity of the code has,
\* for that year, the count and the amount of all those rows together.
C22_VariantsSummed ==
  \A name \in {"expenses.json", "objects.json"} : Computed(name) =>
    \A i \in 1..Len(aggregates[name]) :
      LET e == aggregates[name][i]
      IN \A y \in DOMAIN e.years :
           LET rows == {r \in MappedRows(name, e.id) :
                          IntToStr(df[r].year) = y}
           IN Cardinality({DescriptionOf(name, df[r]) : r \in rows}) >= 2
                => /\ e.years[y].count = Cardinality(rows)
                   /\ e.years[y].amount = SumAmt(df, rows)

\* Tables whose codes contain the separator '-'
HyphenRows ==
  {Base,
   [Base EXCEPT !.agency = <<"A","2">>],
   [Base EXCEPT !.department = <<"1">>, !.agency = <<"2","-","3">>],
   [Base EXCEPT !.department = <<"1","-","2">>, !.agency = <<"3">>],
   [Base EXCEPT !.department = <<"1">>, !.agency = <<"2">>,
                !.uacs_fundsubcat_dsc = <<"3","-","F","1">>,
                !.uacs_exp_cd = <<"3","-","E","1">>,
                !.uacs_sobj_cd = <<"3","-","O","1">>]}

HyphenTables == UNION {[1..n -> HyphenRows] : n \in 0..MaxRows}

InitHyphen ==
  /\ \/ input = "ok" /\ parquet \in HyphenTables /\ columns = Columns
     \/ input = "missing" /\ parquet = <<>> /\ columns = Columns
  /\ amt_dtype = "float64"
  /\ unwritable = {}
  /\ Fresh

SpecHyphen == InitHyphen /\ [][Next]_vars

\* The key of a row at a level, as the tuple of its codes
CodesOf(name, r) ==
  CASE name = "agencies.json" -> <<r.department, r.agency>>
    [] name = "fund_subcategories.json" ->
         <<r.department, r.agency, r.uacs_fundsubcat_dsc>>
    [] name = "expenses.json" -> <<r.department, r.agency, r.uacs_exp_cd>>
    [] name = "objects.json" -> <<r.department, r.agency, r.uacs_sobj_cd>>

\* The rows a level keeps: keyed, with a description the level accepts
KeptRows(name) ==
  {i \in 1..Len(df) :
     /\ Keyed(df[i])
     /\ name = "fund_subcategories.json" =>
          df[i].uacs_fundsubcat_dsc \notin {NULL, <<>>}
     /\ name = "expenses.json" =>
          df[i].uacs_exp_dsc \notin {NULL, <<>>} /\ df[i].uacs_exp_cd # NULL
     /\ name = "objects.json" =>
          df[i].uacs_sobj_dsc \notin {NULL, <<>>, S_nan}
          /\ df[i].uacs_sobj_cd # NULL}

\* C23: id construction is injective: rows of two different (department,
\* agency) pairs, or of two different (department, agency, own code) triples,
\* never get the same id, whatever the code strings, so every level has one
\* entity for each distinct pair or triple of its rows.
C23_InjectiveIds ==
  \A name \in {"agencies.json"} \cup LeafLevels : Computed(name) =>
    Len(aggregates[name]) =
      Cardinality({CodesOf(name, df[i]) : i \in KeptRows(name)})

RECURSIVE SumOver(_, _)
SumOver(f, K) ==
  IF K = {} THEN 0
  ELSE LET k == CHOOSE x \in K : TRUE IN f[k] + SumOver(f, K \ {k})

\* years[y][field] of an entity, 0 when the entity has no year y
FigureAt(e, y, field) ==
  IF y \in DOMAIN e.years THEN e.years[y][field] ELSE 0

YearStrings == {IntToStr(df[i].year) : i \in 1..Len(df)}

\* The agency entities of a department entity
AgenciesOf(d) ==
  {k \in 1..Len(aggregates["agencies.json"]) :
     aggregates["agencies.json"][k].department_id = d.id}

\* C24: for every department and year, the counts (and the amounts, all
\* non-negative) of the department's agency entities add up to at most the
\* department's figures, and to exactly them when no row of the department
\* lacks the agency code; the count of a year's total is the sum of the
\* departments' counts of the year when no row lacks the department code.
C24_CrossLevel ==
  /\ (Computed("departments.json") /\ Computed("agencies.json")) =>
       \A i \in 1..Len(aggregates["departments.json"]) :
         LET d == aggregates["departments.json"][i]
             ags == aggregates["agencies.json"]
             complete == \A r \in 1..Len(df) :
                           Str(df[r].department) = d.id => df[r].agency # NULL
         IN \A y \in YearStrings : \A field \in {"count", "amount"} :
              LET total == SumOver([k \in AgenciesOf(d) |->
                                      FigureAt(ags[k], y, field)],
                                   AgenciesOf(d))
              IN /\ total <= FigureAt(d, y, field)
                 /\ complete => total = FigureAt(d, y, field)
  /\ (Computed("departments.json") /\ Computed("yearly_totals.json")
      /\ \A r \in 1..Len(df) : df[r].department # NULL) =>
       \A j \in 1..Len(aggregates["yearly_totals.json"]) :
         LET t == aggregates["yearly_totals.json"][j]
             deps == aggregates["departments.json"]
         IN t.count = SumOver([k \in 1..Len(deps) |->
                                 FigureAt(deps[k], IntToStr(t.year), "count")],
                              1..Len(deps))

\* Department 01 with agency A1 and a row without agency code, in one year:
\* the agency has one row, the department and the year two.
C24_Witness ==
  /\ pc = "done"
  /\ Len(df) = 2
  /\ df[1].agency = NULL /\ df[2].agency # NULL
  /\ df[1].department = df[2].department /\ df[1].department # NULL
  /\ df[1].year = df[2].year
  /\ Len(aggregates["agencies.json"]) = 1
  /\ aggregates["agencies.json"][1].years[IntToStr(df[1].year)].count = 1
  /\ aggregates["departments.json"][1].years[IntToStr(df[1].year)].count = 2
  /\ aggregates["yearly_totals.json"][1].count = 2

\* The files whose write has been attempted so far
Attempted == {files[k].filename : k \in 1..Len(files)}
               \cup {failed[k] : k \in 1..Len(failed)}

\* C25: no file of a level is written before all six aggregates are computed;
\* when a builder raises, the run ends without a file written; the writes are
\* attempted in the order departments, agencies, fund_subcategories,
\* expenses, objects, yearly_totals.
C25_ComputeThenWrite ==
  /\ Attempted # {} => \A k \in 1..Len(Filenames) : Computed(Filenames[k])
  /\ pc = "raised" => Attempted = {}
  /\ Attempted = {Filenames[k] : k \in 1..(Len(files) + Len(failed))}
  /\ pc = "done" => Len(files) + Len(failed) = Len(Filenames)

\* A run in which departments.json could not be written and agencies.json
\* has been, before the other four
C25_Witness ==
  /\ pc = "write"
  /\ failed = <<"departments.json">>
  /\ Len(files) = 1 /\ files[1].filename = "agencies.json"
  /\ Len(aggregates["agencies.json"]) = 2

\* The builder of a level
BuilderOf(name, t) ==
  CASE name = "departments.json" -> create_department_aggregates(t)
    [] name = "agencies.json" -> create_agency_aggregates(t)
    [] name = "fund_subcategories.json" -> create_fund_subcategory_aggregates(t)
    [] name = "expenses.json" -> create_expense_aggregates(t)
    [] name = "objects.json" -> create_object_aggregates(t)
    [] name = "yearly_totals.json" -> create_yearly_totals(t)

RowOrders(n) ==
  {p \in [1..n -> 1..n] : \A i, j \in 1..n : p[i] = p[j] => i = j}

Permuted(t, p) == [i \in 1..Len(t) |-> t[p[i]]]

\* An entity without its slug: id, description, parent references, years
Core(e) == [f \in DOMAIN e \ {"slug"} |-> e[f]]

Cores(list) == {Core(list[i]) : i \in 1..Len(list)}

\* C26: the output of every level builder is the same for every order of
\* the rows of the table: no entity's id, description, parent reference or
\* years depends on which row comes first, the case in which every
\* description of a department or agency is blank included.
C26_OrderIndependent ==
  \A k \in 1..Len(Filenames) : Computed(Filenames[k]) =>
    \A p \in RowOrders(Len(df)) :
      LET other == BuilderOf(Filenames[k], Permuted(df, p))
      IN /\ ~other.raised
         /\ Cores(other.result) = Cores(aggregates[Filenames[k]])

\* The own-level descriptions that stand for "no value": null, the empty
\* string, and 'nan', which astype(str) writes for a missing CSV value
Missing == {NULL, <<>>, S_nan}

\* The ids of the rows of a level that have an own-level description
IdsWithDescription(name) ==
  {LeafId(Str(df[i].department), Str(df[i].agency),
          Str(CodesOf(name, df[i])[3])) :
     i \in {r \in 1..Len(df) :
              /\ Keyed(df[r])
              /\ df[r][LeafColumn(name)] \notin Missing
              /\ CodesOf(name, df[r])[3] # NULL}}

\* C27: the fund-subcategory, expense and object builders exclude the same
\* rows: a row whose own-level description is null, '' or 'nan' creates no
\* entity at its level, so the entities of a level are those of the rows
\* that have a description.
C27_SameExclusion ==
  \A name \in LeafLevels : Computed(name) =>
    {aggregates[name][k].id : k \in 1..Len(aggregates[name])}
      = IdsWithDescription(name)

\* ---------------------------------------------------------------------------
\* import_gaa.py and import_dpwh.py: load a parquet file into a search index
\* ---------------------------------------------------------------------------

MaxImportRows == 4
MaxImportBatch == 3

ImportScripts == {"import_gaa.py", "import_dpwh.py"}

PrimaryKey(script) == IF script = "import_gaa.py" THEN "id" ELSE "contractId"

Min(a, b) == IF a <= b THEN a ELSE b

ImportUnchanged ==
  UNCHANGED <<input, parquet, columns, amt_dtype, unwritable, csv,
              df, pc, output_dir, aggregates, files, failed, sql,
              split, sitemap>>

\* The parquet file is checked and read (import_dpwh.py also requires the
\* column contractId); any failure ends the script with status 1.
ImportLoad ==
  /\ search.pc = "start"
  /\ search' = [search EXCEPT !.pc = IF search.loadable THEN "delete"
                                     ELSE "exit1"]
  /\ ImportUnchanged

\* try: client.delete_index(INDEX_NAME) / except: pass.  The call deletes
\* the index, or raises and leaves the server as it was.
ImportDelete ==
  /\ search.pc = "delete"
  /\ \E raises \in BOOLEAN :
       search' = [search EXCEPT !.pc = "create",
                                !.stale = IF raises THEN @ ELSE FALSE]
  /\ ImportUnchanged

\* client.create_index, outside any try; then total_imported = 0 and
\* num_batches = (total_rows + BATCH_SIZE - 1) // BATCH_SIZE
ImportCreate ==
  /\ search.pc = "create"
  /\ \E raises \in BOOLEAN :
       search' =
         IF raises THEN [search EXCEPT !.pc = "raised"]
         ELSE IF search.BATCH_SIZE = 0
         THEN [search EXCEPT !.pc = "raised",
                             !.created = PrimaryKey(search.script)]
         ELSE [search EXCEPT
                 !.pc = "loop",
                 !.created = PrimaryKey(search.script),
                 !.total_imported = 0,
                 !.num_batches = (search.total_rows + search.BATCH_SIZE - 1)
                                   \div search.BATCH_SIZE]
  /\ ImportUnchanged

\* One iteration of "for batch_idx in range(num_batches)": the slice of
\* records is sent; when add_documents raises the batch is skipped.
ImportBatch ==
  /\ search.pc = "loop"
  /\ Len(search.batches) < search.num_batches
  /\ \E raises \in BOOLEAN :
       LET batch_idx == Len(search.batches)
           start_idx == batch_idx * search.BATCH_SIZE
           end_idx == Min(start_idx + search.BATCH_SIZE, search.total_rows)
           records == [k \in 1..(end_idx - start_idx) |-> start_idx + k]
       IN search' = [search EXCEPT
            !.batches = Append(@, [records |-> records, ok |-> ~raises]),
            !.total_imported = IF raises THEN @ ELSE @ + Len(records)]
  /\ ImportUnchanged

\* After the loop the script prints total_imported and num_batches
ImportEnd ==
  /\ search.pc = "loop"
  /\ Len(search.batches) = search.num_batches
  /\ search' = [search EXCEPT !.pc = "done"]
  /\ ImportUnchanged

InitImport ==
  /\ input = "missing" /\ parquet = <<>> /\ columns = Columns
  /\ amt_dtype = "float64" /\ unwritable = {}
  /\ csv = NoCsv /\ df = <<>> /\ pc = "start" /\ output_dir = FALSE
  /\ aggregates = <<>> /\ files = <<>> /\ failed = <<>> /\ sql = SqlFresh
  /\ split = [pc |-> "idle"]
  /\ sitemap = [pc |-> "idle"]
  /\ \E script \in ImportScripts, loadable \in BOOLEAN, existed \in BOOLEAN,
        n \in 0..MaxImportRows, size \in 0..MaxImportBatch :
       search = [pc |-> "start", script |-> script, loadable |-> loadable,
                 total_rows |-> n, BATCH_SIZE |-> size,
                 existed |-> existed, stale |-> existed, created |-> "",
                 num_batches |-> 0, batches |-> <<>>, total_imported |-> 0]

NextImport ==
  ImportLoad \/ ImportDelete \/ ImportCreate \/ ImportBatch \/ ImportEnd

SpecImport == InitImport /\ [][NextImport]_vars

\* ceil(a / b) for b >= 1
Ceil(a, b) == IF a % b = 0 THEN a \div b ELSE a \div b + 1

RECURSIVE ImportConcat(_)
ImportConcat(bs) ==
  IF bs = <<>> THEN <<>> ELSE Head(bs).records \o ImportConcat(Tail(bs))

RECURSIVE ImportedSize(_)
ImportedSize(bs) ==
  IF bs = <<>> THEN 0
  ELSE (IF Head(bs).ok THEN Len(Head(bs).records) ELSE 0)
         + ImportedSize(Tail(bs))

\* C29: the index is deleted and created anew before the first batch is
\* sent; the records go out in ceil(total / BATCH_SIZE) consecutive batches,
\* each record in exactly one; a batch whose add_documents call fails does
\* not stop the later ones; at the end total_imported is the sum of the
\* sizes of the batches whose call succeeded.
C29_Import ==
  /\ search.pc \in {"loop", "done"} =>
       (search.batches # <<>> => ~search.stale /\ search.created # "")
  /\ search.pc = "done" =>
       /\ Len(search.batches) = Ceil(search.total_rows, search.BATCH_SIZE)
       /\ ImportConcat(search.batches)
            = [k \in 1..search.total_rows |-> k]
       /\ search.total_imported = ImportedSize(search.batches)

\* ---------------------------------------------------------------------------
\* generate_sitemap.py: create_sitemap(departments, agencies, ...)
\* ---------------------------------------------------------------------------

MaxDepartments == 2
MaxAgencies == 2

\* Department objects as read from departments.json: with a slug (the pandas
\* builder) or without one (create_aggregates_sql.py writes id, code,
\* description and years only)
DepartmentObjects ==
  {[id |-> "01", slug |-> "xyz"],
   [id |-> "02", slug |-> "dot"],
   [id |-> "03", slug |-> "xyz"],
   [id |-> "XYZ", code |-> "01"]}

AgencyObjects ==
  {[id |-> "01-A1", department_id |-> "01", slug |-> "office"],
   [id |-> "02-A1", department_id |-> "02", slug |-> "office"],
   [id |-> "03-A1", department_id |-> "03", slug |-> "office"],
   [id |-> "09-A1", department_id |-> "09", slug |-> "office"],
   [id |-> "XYZ::A1", department_id |-> "XYZ", slug |-> "office"],
   [id |-> "01-A2", department_id |-> "01"]}

\* URLs below base_url, as lists of path segments
DepartmentUrl(dept) == <<"budget", "departments", dept.slug>>

AgencyUrl(dept, agency) ==
  <<"budget", "departments", dept.slug, "agencies", agency.slug>>

StaticUrls == <<<<>>, <<"budget">>, <<"budget", "departments">>>>

\* "for d in departments: if d['id'] == dept_id: dept = d; break": the
\* position of the first department with the id, 0 when there is none
RECURSIVE FindDepartment(_, _, _)
FindDepartment(departments, dept_id, k) ==
  IF k > Len(departments) THEN 0
  ELSE IF departments[k].id = dept_id THEN k
  ELSE FindDepartment(departments, dept_id, k + 1)

SitemapUnchanged ==
  UNCHANGED <<input, parquet, columns, amt_dtype, unwritable, csv,
              df, pc, output_dir, aggregates, files, failed, sql,
              split, search>>

\* The three fixed pages, then dept_slug_map = {dept['slug']: dept ...},
\* which raises KeyError at a department without 'slug'
SitemapStatic ==
  /\ sitemap.pc = "start"
  /\ sitemap' =
       [sitemap EXCEPT
          !.urlset = StaticUrls,
          !.pc = IF \E k \in 1..Len(sitemap.departments) :
                      "slug" \notin DOMAIN sitemap.departments[k]
                 THEN "raised" ELSE "departments"]
  /\ SitemapUnchanged

\* One iteration of "for dept in departments"
SitemapDepartment ==
  /\ sitemap.pc = "departments"
  /\ sitemap.d < Len(sitemap.departments)
  /\ LET dept == sitemap.departments[sitemap.d + 1]
         s == [sitemap EXCEPT !.d = @ + 1]
     IN sitemap' =
          IF "slug" \notin DOMAIN dept
          THEN [s EXCEPT !.warnings = @ + 1]
          ELSE IF DepartmentUrl(dept) \in sitemap.added_urls THEN s
          ELSE [s EXCEPT !.urlset = Append(@, DepartmentUrl(dept)),
                         !.added_urls = @ \cup {DepartmentUrl(dept)}]
  /\ SitemapUnchanged

\* The end of the department loop
SitemapDepartmentsEnd ==
  /\ sitemap.pc = "departments"
  /\ sitemap.d = Len(sitemap.departments)
  /\ sitemap' = [sitemap EXCEPT !.pc = "agencies"]
  /\ SitemapUnchanged

\* One iteration of "for agency in agencies"
SitemapAgency ==
  /\ sitemap.pc = "agencies"
  /\ sitemap.a < Len(sitemap.agencies)
  /\ LET agency == sitemap.agencies[sitemap.a + 1]
         s == [sitemap EXCEPT !.a = @ + 1]
         k == FindDepartment(sitemap.departments, agency.department_id, 1)
     IN sitemap' =
          IF "slug" \notin DOMAIN agency THEN [s EXCEPT !.warnings = @ + 1]
          ELSE IF k = 0 \/ "slug" \notin DOMAIN sitemap.departments[k]
          THEN [s EXCEPT !.warnings = @ + 1]
          ELSE LET agency_url == AgencyUrl(sitemap.departments[k], agency)
               IN IF agency_url \in sitemap.added_urls THEN s
                  ELSE [s EXCEPT !.urlset = Append(@, agency_url),
                                 !.added_urls = @ \cup {agency_url},
                                 !.agency_count = @ + 1]
  /\ SitemapUnchanged

\* return urlset
SitemapEnd ==
  /\ sitemap.pc = "agencies"
  /\ sitemap.a = Len(sitemap.agencies)
  /\ sitemap' = [sitemap EXCEPT !.pc = "done"]
  /\ SitemapUnchanged

InitSitemap ==
  /\ input = "missing" /\ parquet = <<>> /\ columns = Columns
  /\ amt_dtype = "float64" /\ unwritable = {}
  /\ csv = NoCsv /\ df = <<>> /\ pc = "start" /\ output_dir = FALSE
  /\ aggregates = <<>> /\ files = <<>> /\ failed = <<>> /\ sql = SqlFresh
  /\ split = [pc |-> "idle"]
  /\ search = [pc |-> "idle"]
  /\ \E departments \in UNION {[1..n -> DepartmentObjects] :
                                n \in 0..MaxDepartments},
        agencies \in UNION {[1..n -> AgencyObjects] : n \in 0..MaxAgencies} :
       sitemap = [pc |-> "start", departments |-> departments,
                  agencies |-> agencies, urlset |-> <<>>, added_urls |-> {},
                  d |-> 0, a |-> 0, warnings |-> 0, agency_count |-> 0]

NextSitemap ==
  \/ SitemapStatic \/ SitemapDepartment \/ SitemapDepartmentsEnd
  \/ SitemapAgency \/ SitemapEnd

SpecSitemap == InitSitemap /\ [][NextSitemap]_vars

\* The URLs that complete departments and agencies are to get
ExpectedUrls ==
  {DepartmentUrl(sitemap.departments[k]) :
     k \in {i \in 1..Len(sitemap.departments) :
              "slug" \in DOMAIN sitemap.departments[i]}}
  \cup
  {AgencyUrl(sitemap.departments[
               FindDepartment(sitemap.departments,
                              sitemap.agencies[j].department_id, 1)],
             sitemap.agencies[j]) :
     j \in {i \in 1..Len(sitemap.agencies) :
              /\ "slug" \in DOMAIN sitemap.agencies[i]
              /\ LET k == FindDepartment(sitemap.departments,
                                         sitemap.agencies[i].department_id, 1)
                 IN k # 0 /\ "slug" \in DOMAIN sitemap.departments[k]}}

\* C30: create_sitemap never fails on incomplete entities: a department
\* without slug, an agency without slug and an agency without a department
\* that has a slug are skipped, every other department and agency gets its
\* URL, and no URL is emitted twice.
C30_SitemapSkips ==
  /\ sitemap.pc # "raised"
  /\ sitemap.pc = "done" =>
       /\ {sitemap.urlset[k] : k \in 4..Len(sitemap.urlset)} = ExpectedUrls
       /\ \A i, j \in 1..Len(sitemap.urlset) :
            sitemap.urlset[i] = sitemap.urlset[j] => i = j

====
